---- MODULE Spec2Model ----
(***************************************************************************)
(* Model of the tilt-ts reconciliation engine: the state store             *)
(* (TiltConfig), the diff (StateAnalyzer over deep-diff), and the          *)
(* orchestrator (TiltEngine.up) with its docker and kubernetes managers.   *)
(***************************************************************************)
EXTENDS Integers, Sequences, FiniteSets, TLC

VARIABLES
    \* ---- StateAnalyzer exercised as a pure function (SpecDiff) ----
    anaOld,        \* oldState argument of analyzeChanges
    anaNew,        \* newState argument of analyzeChanges
    anaOut,        \* [done, docker, k8s]: the two projections of the result
    \* ---- TiltConfig (the store) ----
    state,         \* TiltConfig.state
    initialState,  \* TiltConfig.initialState (the baseline)
    initialized,   \* TiltConfig._initialized
    disk,          \* content of .tilt-ts/state-<port>.json
    \* ---- TiltEngine ----
    isRunning,     \* TiltEngine.isRunning
    isDevMode,     \* TiltEngine.isDevMode
    call,          \* per up() invocation: position and locals
    \* ---- managers created by initializeManagers ----
    k8sMgr,        \* KubernetesManager: [contextAvailable, namespaceReady]
    dockerMgr,     \* DockerManager: [connectionVerified]
    \* ---- the world outside the process ----
    env,           \* the cluster: [nsExists]
    inflight,      \* buildImage calls started and not yet settled: <<image, call>>
    \* ---- observation of side effects ----
    ops,           \* per up() invocation: the side effects it has issued
    lastPass,      \* summary of the last up() invocation that got past the guard
    passes,        \* number of up() invocations made so far
    \* ---- LiveUpdateManager and teardown ----
    hasManagers,   \* the three manager fields of TiltEngine are set (not null)
    lum,           \* which LiveUpdateManager the engine holds (counts the ones created)
    sessions,      \* LiveUpdateManager.sessions: the images with a live session
    dcall,         \* per down() invocation: position, locals and side effects
    \* ---- parts exercised on their own ----
    bld,           \* one DockerManager.buildImage / pushImageWithRetry call
    nsv,           \* one string taken through normalizeNamespace
    ld,            \* the loading of one TiltConfig: init promise and store calls
    lv,            \* one LiveUpdateManager: sessions, watchers and the calls on it
    pat,           \* one (filePath, pattern) pair given to matchesPattern
    ay,            \* one KubernetesManager.applyYaml call
    km,            \* one KubernetesManager: its cached flags and the calls on it
    fe             \* one live-update session and the file-change events given to it

vars == <<anaOld, anaNew, anaOut, state, initialState, initialized, disk,
          isRunning, isDevMode, call, k8sMgr, dockerMgr, env, inflight, ops,
          lastPass, passes, hasManagers, lum, sessions, dcall, bld, nsv, ld,
          lv, pat, ay, km, fe>>

anaVars == <<anaOld, anaNew, anaOut>>
storeVars == <<state, initialState, initialized, disk>>
engineVars == <<state, initialState, initialized, disk, isRunning, isDevMode,
                call, k8sMgr, dockerMgr, env, inflight, ops, lastPass, passes,
                hasManagers, lum, sessions, dcall, bld, nsv, ld, lv, pat, ay, km, fe>>
liveVars == <<hasManagers, lum, sessions>>
engineVarsButUnits == <<state, initialState, initialized, disk, isRunning, isDevMode,
                        call, k8sMgr, dockerMgr, env, inflight, ops, lastPass, passes,
                        hasManagers, lum, sessions>>
\* the variables of the parts that are exercised on their own
restVars == <<lv, pat, ay, km, fe>>
unitVars == <<dcall, bld, nsv, ld, lv, pat, ay, km, fe>>
aloneVars == <<bld, nsv, ld, lv, pat, ay, km, fe>>
unitVarsButLd == <<dcall, bld, nsv, lv, pat, ay, km, fe>>

-----------------------------------------------------------------------------
(* Bounds of the model *)

\* longest live_update array registered for one build
MaxLiveSteps == 2
\* number of up() invocations made on one engine
MaxCalls == 2
\* number of down() invocations made on one engine
MaxDowns == 2
\* largest retry budget pushImageWithRetry is called with
MaxRetries == 3
\* longest string given to normalizeNamespace, not counting padded ones
MaxNsLen == 3
\* number of calls made on one TiltConfig
MaxLoads == 2
\* number of calls made on one LiveUpdateManager
MaxLiveCalls == 3
\* length of the patterns and of the paths matchesPattern is tried on
MaxPatternLen == 3
MaxPathLen == 3
\* number of calls made on one KubernetesManager
MaxManagerCalls == 2
\* number of file-change events delivered to one live-update session
MaxEvents == 2
\* number of files one applyYaml call resolves
MaxYamlFiles == 4

-----------------------------------------------------------------------------
(* Namespace normalization (TiltConfig.normalizeNamespace, repeated in       *)
(* KubernetesManager.normalizeNamespace).  A string is the sequence of its   *)
(* characters.                                                               *)

UpperCase == <<"A", "B", "C", "D", "E", "F", "G", "H", "I", "J", "K", "L", "M",
               "N", "O", "P", "Q", "R", "S", "T", "U", "V", "W", "X", "Y", "Z">>
LowerCase == <<"a", "b", "c", "d", "e", "f", "g", "h", "i", "j", "k", "l", "m",
               "n", "o", "p", "q", "r", "s", "t", "u", "v", "w", "x", "y", "z">>
Digits == {"0", "1", "2", "3", "4", "5", "6", "7", "8", "9"}

\* the longest namespace kept as it is, and the length a longer one is cut to
NamespaceLimit == 63
TruncatedLength == 60

\* [a-z0-9]
Alnum == Digits \cup {LowerCase[k] : k \in DOMAIN LowerCase}
IsAlnum(c) == c \in Alnum

\* the lowercase letter of every uppercase letter
LowerOf ==
    [c \in {UpperCase[k] : k \in DOMAIN UpperCase} |->
        LowerCase[CHOOSE k \in DOMAIN UpperCase : UpperCase[k] = c]]

\* String.prototype.toLowerCase
toLowerCase(str) ==
    [i \in 1..Len(str) |-> IF str[i] \in DOMAIN LowerOf THEN LowerOf[str[i]] ELSE str[i]]

\* .replace(/[^a-z0-9-]/g, "-")
ReplaceInvalid(str) ==
    [i \in 1..Len(str) |-> IF IsAlnum(str[i]) \/ str[i] = "-" THEN str[i] ELSE "-"]

\* .replace(/^-+|-+$/g, "")
StripHyphens(str) ==
    LET kept == {i \in 1..Len(str) : str[i] # "-"}
    IN  IF kept = {} THEN <<>>
        ELSE SubSeq(str, CHOOSE i \in kept : \A j \in kept : i <= j,
                         CHOOSE i \in kept : \A j \in kept : j <= i)

\* .replace(/-+/g, "-")
RECURSIVE CollapseHyphens(_)
CollapseHyphens(str) ==
    IF Len(str) <= 1 THEN str
    ELSE IF str[1] = "-" /\ str[2] = "-" THEN CollapseHyphens(Tail(str))
    ELSE <<str[1]>> \o CollapseHyphens(Tail(str))

\* String.prototype.trim, for strings whose only whitespace is the space
RECURSIVE trim(_)
trim(str) ==
    IF Len(str) = 0 THEN str
    ELSE IF str[1] = " " THEN trim(Tail(str))
    ELSE IF str[Len(str)] = " " THEN trim(SubSeq(str, 1, Len(str) - 1))
    ELSE str

\* a namespace longer than the limit is cut and closed with "-ns"
Truncate_keepsAll(str) == str
Truncate(str) ==
    IF Len(str) > NamespaceLimit
    THEN SubSeq(str, 1, TruncatedLength) \o <<"-", "n", "s">>
    ELSE str

normalizeNamespace(namespace) ==
    LET cleaned == CollapseHyphens(StripHyphens(ReplaceInvalid(toLowerCase(namespace))))
        headed == IF Len(cleaned) = 0 \/ ~IsAlnum(cleaned[1])
                  THEN <<"n", "s", "-">> \o cleaned ELSE cleaned
        tailed == IF Len(headed) = 0 \/ ~IsAlnum(headed[Len(headed)])
                  THEN headed \o <<"-", "n", "s">> ELSE headed
        filled == IF Len(tailed) = 0
                  THEN <<"d", "e", "f", "a", "u", "l", "t", "-", "n", "s">> ELSE tailed
    IN  Truncate(filled)

-----------------------------------------------------------------------------
(* Data model: GlobalTiltState and its parts *)

Images == {"app", "web"}
Yamls == {"k8s/a.yaml", "k8s/b.yaml"}

\* Object.keys order: keys are registered in this order by the Tiltfile
ImageOrder == <<"app", "web">>
YamlOrder == <<"k8s/a.yaml", "k8s/b.yaml">>

KeysInOrder(order, S) == SelectSeq(order, LAMBDA k : k \in S)

RECURSIVE Flatten(_)
Flatten(ss) ==
    IF Len(ss) = 0 THEN <<>> ELSE Head(ss) \o Flatten(Tail(ss))

\* sync(src, dest)
sync(src, dest) == [type |-> "sync", src |-> src, dest |-> dest]

LiveSteps == {sync("src", "/app"), sync("public", "/app")}

RECURSIVE SeqsUpTo(_, _)
SeqsUpTo(S, n) ==
    IF n = 0 THEN {<<>>}
    ELSE LET shorter == SeqsUpTo(S, n - 1)
         IN  shorter \cup {Append(s, x) : s \in {t \in shorter : Len(t) = n - 1}, x \in S}

\* the `hot` property of a DockerBuildConfig: missing, present with the value
\* undefined, or a HotReloadConfig object
HotAbsent == [kind |-> "absent", live_update |-> <<>>]
HotUndefined == [kind |-> "undefined", live_update |-> <<>>]
HotObject(lu) == [kind |-> "object", live_update |-> lu]

HotValues ==
    {HotAbsent, HotUndefined} \cup {HotObject(lu) : lu \in SeqsUpTo(LiveSteps, MaxLiveSteps)}

Dockerfiles == {"Dockerfile", "Dockerfile.dev"}

DockerBuildConfig(imageName, buildContext, hot) ==
    [imageName |-> imageName, buildContext |-> buildContext, hot |-> hot]

BuildContext(dockerfile) == [context |-> ".", dockerfile |-> dockerfile]

K8sYamlConfig(yamlPath) == [yamlPath |-> yamlPath]

EmptyMap == [k \in {} |-> 0]

\* the state built by the TiltConfig constructor; the default namespace
\* "eco_test" is stored normalized ("eco-test")
DefaultState ==
    [docker |-> [registry |-> "localhost:36269"],
     k8s |-> [context |-> "k3d-ecosys-local-dev", namespace |-> normalizeNamespace(<<"e", "c", "o", "_", "t", "e", "s", "t">>)],
     docker_build |-> EmptyMap,
     k8s_yaml |-> EmptyMap]

-----------------------------------------------------------------------------
(* deep-diff: the structural comparison analyzeChanges delegates to *)

DiffNew(path, rhs) == [kind |-> "N", path |-> path, rhs |-> rhs]
DiffDeleted(path, lhs) == [kind |-> "D", path |-> path, lhs |-> lhs]
DiffEdit(path, lhs, rhs) == [kind |-> "E", path |-> path, lhs |-> lhs, rhs |-> rhs]
DiffArray(path, index, item) == [kind |-> "A", path |-> path, index |-> index, item |-> item]

\* two primitive values under the same key
DiffLeaf(path, lhs, rhs) ==
    IF lhs = rhs THEN <<>> ELSE <<DiffEdit(path, lhs, rhs)>>

\* two live-update steps (objects with the keys type, src, dest)
DiffStep(path, lhs, rhs) ==
    DiffLeaf(path \o <<"type">>, lhs.type, rhs.type)
    \o DiffLeaf(path \o <<"src">>, lhs.src, rhs.src)
    \o DiffLeaf(path \o <<"dest">>, lhs.dest, rhs.dest)

\* two arrays: the surplus of the longer one from the end, then the common
\* indices from the highest down (indices are 0-based as in the library)
DiffArrayItems(path, lhs, rhs) ==
    LET nl == Len(lhs)
        nr == Len(rhs)
        common == IF nl < nr THEN nl ELSE nr
        surplus ==
            IF nr > nl
            THEN [n \in 1..(nr - nl) |->
                    DiffArray(path, nr - n, DiffNew(<<>>, rhs[nr - n + 1]))]
            ELSE [n \in 1..(nl - nr) |->
                    DiffArray(path, nl - n, DiffDeleted(<<>>, lhs[nl - n + 1]))]
        shared ==
            Flatten([n \in 1..common |->
                DiffStep(path \o <<common - n>>, lhs[common - n + 1], rhs[common - n + 1])])
    IN  surplus \o shared

\* the `hot` key of two build configs; a key that exists with the value
\* undefined counts as defined on its side
DiffHot(path, lhs, rhs) ==
    LET ldefined == lhs.kind # "absent"
        rdefined == rhs.kind # "absent"
    IN  IF ~ldefined /\ ~rdefined THEN <<>>
        ELSE IF ~ldefined THEN <<DiffNew(path, rhs)>>
        ELSE IF ~rdefined THEN <<DiffDeleted(path, lhs)>>
        ELSE IF lhs.kind # rhs.kind THEN <<DiffEdit(path, lhs, rhs)>>
        ELSE IF lhs.kind = "object"
             THEN DiffArrayItems(path \o <<"live_update">>, lhs.live_update, rhs.live_update)
        ELSE <<>>

DiffBuildContext(path, lhs, rhs) ==
    DiffLeaf(path \o <<"context">>, lhs.context, rhs.context)
    \o DiffLeaf(path \o <<"dockerfile">>, lhs.dockerfile, rhs.dockerfile)

\* two values under the same docker_build key: both are objects, so the
\* library descends into them
DiffConfig(path, lhs, rhs) ==
    DiffLeaf(path \o <<"imageName">>, lhs.imageName, rhs.imageName)
    \o DiffBuildContext(path \o <<"buildContext">>, lhs.buildContext, rhs.buildContext)
    \o DiffHot(path \o <<"hot">>, lhs.hot, rhs.hot)

DiffYaml(path, lhs, rhs) ==
    DiffLeaf(path \o <<"yamlPath">>, lhs.yamlPath, rhs.yamlPath)

\* the docker_build maps: the keys of lhs first (descend or deleted), then
\* the keys only rhs has (new)
DiffDockerBuild(lhs, rhs) ==
    LET akeys == KeysInOrder(ImageOrder, DOMAIN lhs)
        pkeys == KeysInOrder(ImageOrder, DOMAIN rhs \ DOMAIN lhs)
    IN  Flatten([i \in 1..Len(akeys) |->
            IF akeys[i] \in DOMAIN rhs
            THEN DiffConfig(<<"docker_build", akeys[i]>>, lhs[akeys[i]], rhs[akeys[i]])
            ELSE <<DiffDeleted(<<"docker_build", akeys[i]>>, lhs[akeys[i]])>>])
        \o [i \in 1..Len(pkeys) |-> DiffNew(<<"docker_build", pkeys[i]>>, rhs[pkeys[i]])]

DiffK8sYaml(lhs, rhs) ==
    LET akeys == KeysInOrder(YamlOrder, DOMAIN lhs)
        pkeys == KeysInOrder(YamlOrder, DOMAIN rhs \ DOMAIN lhs)
    IN  Flatten([i \in 1..Len(akeys) |->
            IF akeys[i] \in DOMAIN rhs
            THEN DiffYaml(<<"k8s_yaml", akeys[i]>>, lhs[akeys[i]], rhs[akeys[i]])
            ELSE <<DiffDeleted(<<"k8s_yaml", akeys[i]>>, lhs[akeys[i]])>>])
        \o [i \in 1..Len(pkeys) |-> DiffNew(<<"k8s_yaml", pkeys[i]>>, rhs[pkeys[i]])]

deepDiff(lhs, rhs) ==
    DiffLeaf(<<"docker", "registry">>, lhs.docker.registry, rhs.docker.registry)
    \o DiffLeaf(<<"k8s", "context">>, lhs.k8s.context, rhs.k8s.context)
    \o DiffLeaf(<<"k8s", "namespace">>, lhs.k8s.namespace, rhs.k8s.namespace)
    \o DiffDockerBuild(lhs.docker_build, rhs.docker_build)
    \o DiffK8sYaml(lhs.k8s_yaml, rhs.k8s_yaml)

-----------------------------------------------------------------------------
(* StateAnalyzer *)

\* a conversion that reports a new key as an edit
convertDiffToChange_newAsModified(diff) ==
    CASE diff.kind = "N" -> [type |-> "modified", path |-> diff.path, value |-> diff.rhs]
      [] diff.kind = "D" -> [type |-> "removed", path |-> diff.path, oldValue |-> diff.lhs]
      [] diff.kind = "E" -> [type |-> "modified", path |-> diff.path,
                             value |-> diff.rhs, oldValue |-> diff.lhs]
      [] diff.kind = "A" -> [type |-> "modified", path |-> diff.path \o <<diff.index>>,
                             item |-> diff.item]

convertDiffToChange(diff) ==
    CASE diff.kind = "N" -> [type |-> "added", path |-> diff.path, value |-> diff.rhs]
      [] diff.kind = "D" -> [type |-> "removed", path |-> diff.path, oldValue |-> diff.lhs]
      [] diff.kind = "E" -> [type |-> "modified", path |-> diff.path,
                             value |-> diff.rhs, oldValue |-> diff.lhs]
      [] diff.kind = "A" -> [type |-> "modified", path |-> diff.path \o <<diff.index>>,
                             item |-> diff.item]

analyzeChanges(oldState, newState) ==
    LET differences == deepDiff(oldState, newState)
    IN  [i \in 1..Len(differences) |-> convertDiffToChange(differences[i])]

\* the filter and the switch shared by both projections
CollectionChanges(changes, collection) ==
    LET own == SelectSeq(changes, LAMBDA c : c.path[1] = collection /\ Len(c.path) = 2)
        ofType(t) == SelectSeq(own, LAMBDA c : c.type = t)
    IN  [added |-> [i \in 1..Len(ofType("added")) |-> ofType("added")[i].value],
         removed |-> [i \in 1..Len(ofType("removed")) |-> ofType("removed")[i].path[2]],
         modified |-> [i \in 1..Len(ofType("modified")) |-> ofType("modified")[i].value]]

getDockerBuildChanges(changes) == CollectionChanges(changes, "docker_build")

getK8sYamlChanges(changes) == CollectionChanges(changes, "k8s_yaml")

-----------------------------------------------------------------------------
(* The inputs StateAnalyzer is exercised on *)

AppConfigs ==
    {DockerBuildConfig("app", BuildContext(d), h) : d \in Dockerfiles, h \in HotValues}

WebConfigs ==
    {DockerBuildConfig("web", BuildContext(d), HotUndefined) : d \in Dockerfiles}

ConfigsOf(imageName) == IF imageName = "app" THEN AppConfigs ELSE WebConfigs

\* every docker_build map whose entries are stored under their own image name
DockerBuildMaps ==
    UNION {{m \in [S -> AppConfigs \cup WebConfigs] : \A k \in S : m[k] \in ConfigsOf(k)}
           : S \in SUBSET Images}

K8sYamlMaps == {[k \in S |-> K8sYamlConfig(k)] : S \in SUBSET Yamls}

AnaStates ==
    {[DefaultState EXCEPT !.docker_build = db, !.k8s_yaml = ky]
       : db \in DockerBuildMaps, ky \in K8sYamlMaps}

NoChanges == [added |-> <<>>, removed |-> <<>>, modified |-> <<>>]

AnaIdle == [done |-> FALSE, changes |-> <<>>, docker |-> NoChanges, k8s |-> NoChanges]

-----------------------------------------------------------------------------
(* TiltConfig: the store *)

\* JSON.stringify of the live state: a property whose value is undefined is
\* left out of the document
jsonStringify(s) ==
    IF "docker_build" \notin DOMAIN s THEN s
    ELSE [s EXCEPT !.docker_build =
            [k \in DOMAIN s.docker_build |->
                [s.docker_build[k] EXCEPT !.hot = IF @.kind = "undefined" THEN HotAbsent ELSE @]]]

\* the state file: missing (fs.access fails with ENOENT), present but not
\* readable, present with text that JSON.parse rejects, or present with the
\* document its text parses to
NoFile == [exists |-> FALSE, readable |-> FALSE, parses |-> FALSE, content |-> DefaultState]
UnreadableFile == [exists |-> TRUE, readable |-> FALSE, parses |-> FALSE, content |-> DefaultState]
CorruptFile == [exists |-> TRUE, readable |-> TRUE, parses |-> FALSE, content |-> DefaultState]
JsonFile(document) == [exists |-> TRUE, readable |-> TRUE, parses |-> TRUE, content |-> document]

\* every error caught by getCachedConfig gives the initial state; a document
\* that parses is returned as it is
getCachedConfig(file, initialTiltState) ==
    IF file.exists /\ file.readable /\ file.parses THEN file.content ELSE initialTiltState

\* init(): the live state after loading; the baseline is a clone of it
StoreInit(st, file) ==
    LET loaded == getCachedConfig(file, st)
    IN  [loaded EXCEPT !.k8s.namespace = normalizeNamespace(@)]

\* ensureInitialized: what a caller finds after awaiting it
EnsuredState == IF initialized THEN state ELSE StoreInit(state, disk)
EnsuredInitial == IF initialized THEN initialState ELSE StoreInit(state, disk)

-----------------------------------------------------------------------------
(* The Tiltfiles evaluated by loadTiltfile *)

A1 == DockerBuildConfig("app", BuildContext("Dockerfile"), HotUndefined)
A2 == DockerBuildConfig("app", BuildContext("Dockerfile.dev"), HotUndefined)
A3 == DockerBuildConfig("app", BuildContext("Dockerfile"), HotObject(<<sync("src", "/app")>>))
W1 == DockerBuildConfig("web", BuildContext("Dockerfile"), HotObject(<<sync("src", "/app")>>))

\* the registrations a Tiltfile makes: docker_build(...) and k8s_yaml(...) calls
Tiltfile(builds, yamls) ==
    [docker_build |-> [k \in {b.imageName : b \in builds} |->
                          CHOOSE b \in builds : b.imageName = k],
     k8s_yaml |-> [k \in yamls |-> K8sYamlConfig(k)]]

Tiltfiles ==
    {Tiltfile({}, {}),
     Tiltfile({A1}, {"k8s/a.yaml"}),
     Tiltfile({A2}, {"k8s/a.yaml"}),
     Tiltfile({A1, W1}, {"k8s/a.yaml", "k8s/b.yaml"}),
     Tiltfile({W1}, {"k8s/b.yaml"})}

-----------------------------------------------------------------------------
(* TiltEngine: one record per up() invocation *)

Calls == 1..MaxCalls

NoOps ==
    [nsCreated |-> FALSE, removed |-> {}, started |-> {}, built |-> {}, buildFailed |-> {},
     deleted |-> {}, applied |-> {}, applyFailed |-> {}, wrote |-> "no", rebased |-> FALSE,
     live |-> {}]

NoPass ==
    [kind |-> "none", dockerSuccess |-> FALSE, k8sSuccess |-> FALSE, persisted |-> FALSE,
     docker_build |-> EmptyMap, k8s_yaml |-> EmptyMap, failedBuilds |-> {}, failedApplies |-> {}]

IdleCall ==
    [pc |-> "idle", dryRun |-> FALSE, devMode |-> FALSE,
     oldState |-> DefaultState, newState |-> DefaultState,
     dockerSuccess |-> TRUE, k8sSuccess |-> TRUE, todo |-> <<>>, cause |-> "none",
     prev |-> NoPass]

FreshK8sManager == [contextAvailable |-> FALSE, namespaceReady |-> FALSE]
FreshDockerManager == [connectionVerified |-> FALSE]

Settled(c) == call[c].pc \in {"idle", "noop", "done", "threw"}
PastGuard(c) == ~Settled(c)

\* a guard that never finds the engine running
AlreadyRunning_never == FALSE

\* the guard at the head of up()
AlreadyRunning == isRunning

\* KubernetesManager.verifyContext: cached once it has succeeded
verifyContext(mgr, reachable) == mgr.contextAvailable \/ reachable

\* KubernetesManager.ensureNamespace: creates the namespace when it is missing
ensureNamespace(mgr, nsExists, createOk) ==
    LET create == ~mgr.namespaceReady /\ ~nsExists
    IN  [ok |-> mgr.namespaceReady \/ nsExists \/ createOk,
         created |-> create /\ createOk]

\* KubernetesManager.initialize (isReady)
K8sInitialize(mgr, nsExists, reachable, createOk) ==
    LET ctx == verifyContext(mgr, reachable)
        ns == ensureNamespace(mgr, nsExists, createOk)
    IN  [ok |-> ctx /\ ns.ok,
         mgr |-> [contextAvailable |-> ctx,
                  namespaceReady |-> IF ctx THEN ns.ok ELSE mgr.namespaceReady],
         created |-> ctx /\ ns.created,
         nsExists |-> nsExists \/ (ctx /\ ns.created)]

\* DockerManager.checkConnection: cached once it has succeeded
checkConnection(mgr, dockerOk) == mgr.connectionVerified \/ dockerOk

\* what the pass leaves behind for the next one to be compared with
PassSummary(rec, op) ==
    [kind |-> IF rec.pc = "threw" THEN "threw" ELSE IF rec.dryRun THEN "dry" ELSE "applied",
     dockerSuccess |-> rec.dockerSuccess, k8sSuccess |-> rec.k8sSuccess,
     persisted |-> op.wrote = "ok" /\ op.rebased,
     docker_build |-> rec.newState.docker_build, k8s_yaml |-> rec.newState.k8s_yaml,
     failedBuilds |-> op.buildFailed, failedApplies |-> op.applyFailed]

\* leaving up() by return or throw: the finally clause
Leave(c, rec, op) ==
    /\ call' = [call EXCEPT ![c] = rec]
    /\ isRunning' = IF isDevMode THEN isRunning ELSE FALSE
    /\ lastPass' = PassSummary(rec, op)

Stay(c, rec) ==
    /\ call' = [call EXCEPT ![c] = rec]
    /\ UNCHANGED <<isRunning, lastPass>>

-----------------------------------------------------------------------------
(* loadTiltfile and the start of a new process *)

\* loadTiltfile: init the store, clear both collections, evaluate the Tiltfile
LoadTiltfile(tf) ==
    /\ passes < MaxCalls
    /\ \A c \in Calls : Settled(c)
    /\ state' = [EnsuredState EXCEPT !.docker_build = tf.docker_build,
                                     !.k8s_yaml = tf.k8s_yaml]
    /\ initialState' = EnsuredInitial
    /\ initialized' = TRUE
    /\ UNCHANGED <<anaVars, unitVars, liveVars, disk, isRunning, isDevMode, call, k8sMgr, dockerMgr, env,
                   inflight, ops, lastPass, passes>>

\* loadTiltfile as src/tilt.ts has it: the collections of tiltConfig.state are
\* cleared and the Tiltfile is evaluated without any init() of the store
LoadTiltfileUninitialized(tf) ==
    /\ passes < MaxCalls
    /\ \A c \in Calls : Settled(c)
    /\ state' = [state EXCEPT !.docker_build = tf.docker_build,
                              !.k8s_yaml = tf.k8s_yaml]
    /\ UNCHANGED <<anaVars, unitVars, liveVars, initialState, initialized, disk, isRunning,
                   isDevMode, call, k8sMgr, dockerMgr, env, inflight, ops, lastPass, passes>>

\* the process ends and the next CLI command starts a new one: a new
\* TiltConfig and a new TiltEngine, the same state file and the same cluster
Restart ==
    /\ passes < MaxCalls
    /\ \A c \in Calls : Settled(c)
    /\ state' = DefaultState
    /\ initialState' = DefaultState
    /\ initialized' = FALSE
    /\ isRunning' = FALSE
    /\ isDevMode' = FALSE
    /\ k8sMgr' = FreshK8sManager
    /\ dockerMgr' = FreshDockerManager
    /\ inflight' = {}
    /\ hasManagers' = FALSE
    /\ lum' = 0
    /\ sessions' = {}
    /\ UNCHANGED <<anaVars, unitVars, disk, call, env, ops, lastPass, passes>>

-----------------------------------------------------------------------------
(* TiltEngine.up, one action per stretch between two awaits *)

UpEnter(c, dryRun, devMode) ==
    /\ passes < MaxCalls
    /\ c = passes + 1
    /\ call[c].pc = "idle"
    /\ passes' = passes + 1
    /\ IF AlreadyRunning
       THEN /\ call' = [call EXCEPT ![c] = [IdleCall EXCEPT !.pc = "noop", !.prev = lastPass]]
            /\ UNCHANGED <<isRunning, isDevMode>>
       ELSE /\ isRunning' = TRUE
            /\ isDevMode' = devMode
            /\ call' = [call EXCEPT ![c] = [IdleCall EXCEPT !.pc = "init", !.dryRun = dryRun,
                                               !.devMode = devMode, !.prev = lastPass]]
    /\ ops' = [ops EXCEPT ![c] = NoOps]
    /\ UNCHANGED <<anaVars, unitVars, liveVars, storeVars, k8sMgr, dockerMgr, env, inflight, lastPass>>

InitializeManagers(c) ==
    /\ call[c].pc = "init"
    /\ state' = EnsuredState
    /\ initialState' = EnsuredInitial
    /\ initialized' = TRUE
    /\ k8sMgr' = FreshK8sManager
    /\ dockerMgr' = FreshDockerManager
    /\ hasManagers' = TRUE
    /\ lum' = lum + 1
    /\ sessions' = {}
    /\ call' = [call EXCEPT ![c].pc = "preflight_k8s"]
    /\ UNCHANGED <<anaVars, unitVars, disk, isRunning, isDevMode, env, inflight, ops, lastPass,
                   passes>>

\* preflightChecks, first part: kubernetesManager.isReady()
PreflightK8s(c) ==
    /\ call[c].pc = "preflight_k8s"
    /\ \E reachable \in BOOLEAN, createOk \in BOOLEAN :
         LET r == K8sInitialize(k8sMgr, env.nsExists, reachable, createOk)
             op == [ops[c] EXCEPT !.nsCreated = @ \/ r.created]
         IN  /\ k8sMgr' = r.mgr
             /\ env' = [env EXCEPT !.nsExists = r.nsExists]
             /\ ops' = [ops EXCEPT ![c] = op]
             /\ IF r.ok
                THEN Stay(c, [call[c] EXCEPT !.pc = "preflight_docker"])
                ELSE Leave(c, [call[c] EXCEPT !.pc = "threw", !.cause = "preflight"], op)
    /\ UNCHANGED <<anaVars, unitVars, liveVars, storeVars, isDevMode, dockerMgr, inflight, passes>>

\* preflightChecks, second part: dockerManager.checkConnection(), then the
\* check that something is registered
PreflightDocker(c) ==
    /\ call[c].pc = "preflight_docker"
    /\ \E dockerOk \in BOOLEAN :
         LET conn == checkConnection(dockerMgr, dockerOk)
             nothing == DOMAIN state.docker_build = {} /\ DOMAIN state.k8s_yaml = {}
         IN  /\ dockerMgr' = [connectionVerified |-> conn]
             /\ IF conn /\ ~nothing
                THEN Stay(c, [call[c] EXCEPT !.pc = "diff"])
                ELSE Leave(c, [call[c] EXCEPT !.pc = "threw", !.cause = "preflight"], ops[c])
    /\ UNCHANGED <<anaVars, unitVars, liveVars, storeVars, isDevMode, k8sMgr, env, inflight, ops, passes>>

\* getInitialState / structuredClone(getState), analyzeChanges, and the
\* dry-run return
Diff(c) ==
    /\ call[c].pc = "diff"
    /\ LET rec == [call[c] EXCEPT !.oldState = initialState, !.newState = state]
       IN  IF rec.dryRun
           THEN Leave(c, [rec EXCEPT !.pc = "done"], ops[c])
           ELSE Stay(c, [rec EXCEPT !.pc = "docker"])
    /\ UNCHANGED <<anaVars, unitVars, liveVars, storeVars, isDevMode, k8sMgr, dockerMgr, env, inflight, ops,
                   passes>>

DockerChangesOf(c) ==
    getDockerBuildChanges(analyzeChanges(call[c].oldState, call[c].newState))

K8sChangesOf(c) ==
    getK8sYamlChanges(analyzeChanges(call[c].oldState, call[c].newState))

\* [...added, ...modified], by key
ImagesToBuild(c) ==
    LET all == DockerChangesOf(c).added \o DockerChangesOf(c).modified
    IN  [i \in 1..Len(all) |-> all[i].imageName]

YamlToApply(c) ==
    LET all == K8sChangesOf(c).added \o K8sChangesOf(c).modified
    IN  [i \in 1..Len(all) |-> all[i].yamlPath]

Range(seq) == {seq[i] : i \in 1..Len(seq)}

\* applyDockerChanges up to its first await
DockerBegin(c) ==
    /\ call[c].pc = "docker"
    /\ LET dc == DockerChangesOf(c)
           total == Len(dc.added) + Len(dc.modified) + Len(dc.removed)
       IN  IF total = 0
           THEN call' = [call EXCEPT ![c].pc = "k8s"]
           ELSE call' = [call EXCEPT ![c].pc = "docker_remove", ![c].todo = dc.removed]
    /\ UNCHANGED <<anaVars, unitVars, liveVars, storeVars, isRunning, isDevMode, k8sMgr, dockerMgr, env, inflight,
                   ops, lastPass, passes>>

\* a removal loop that is left before it has gone through its list
RemovalsDone_always(rec) == TRUE

\* the removal loop (`for (const ... of changes.removed)`) has gone through
\* its list: only then does the function go on to build or apply
RemovalsDone(rec) == rec.todo = <<>>

\* one removeImage of the removal loop (it never throws)
DockerRemove(c) ==
    /\ call[c].pc = "docker_remove"
    /\ call[c].todo # <<>>
    /\ ops' = [ops EXCEPT ![c].removed = @ \cup {Head(call[c].todo)}]
    /\ call' = [call EXCEPT ![c].todo = Tail(@)]
    /\ UNCHANGED <<anaVars, unitVars, liveVars, storeVars, isRunning, isDevMode, k8sMgr, dockerMgr, env, inflight,
                   lastPass, passes>>

\* imagesToBuild.map(...): every buildImage is started, then Promise.all waits
DockerBuildAll(c) ==
    /\ call[c].pc = "docker_remove"
    /\ RemovalsDone(call[c])
    /\ LET names == Range(ImagesToBuild(c))
       IN  /\ inflight' = inflight \cup {<<n, c>> : n \in names}
           /\ ops' = [ops EXCEPT ![c].started = @ \cup names]
           /\ call' = [call EXCEPT ![c].pc = IF names = {} THEN "k8s" ELSE "docker_wait"]
    /\ UNCHANGED <<anaVars, unitVars, liveVars, storeVars, isRunning, isDevMode, k8sMgr, dockerMgr, env,
                   lastPass, passes>>

\* a docker failure that ends the apply part of the pass
PromiseAll_skipsK8s(rec, ok, othersPending) ==
    IF rec.pc # "docker_wait" THEN rec
    ELSE IF ~ok THEN [rec EXCEPT !.dockerSuccess = FALSE, !.pc = "persist"]
    ELSE IF othersPending THEN rec
    ELSE [rec EXCEPT !.pc = "k8s"]

\* Promise.all over the builds: rejects with the first failure, resolves when
\* every build has succeeded
PromiseAll(rec, ok, othersPending) ==
    IF rec.pc # "docker_wait" THEN rec
    ELSE IF ~ok THEN [rec EXCEPT !.dockerSuccess = FALSE, !.pc = "k8s"]
    ELSE IF othersPending THEN rec
    ELSE [rec EXCEPT !.pc = "k8s"]

\* one buildImage (build, tag, push) settles
BuildSettle(img, c, ok) ==
    /\ <<img, c>> \in inflight
    /\ inflight' = inflight \ {<<img, c>>}
    /\ ops' = [ops EXCEPT ![c].built = IF ok THEN @ \cup {img} ELSE @,
                          ![c].buildFailed = IF ok THEN @ ELSE @ \cup {img}]
    /\ call' = [call EXCEPT ![c] =
                  PromiseAll(@, ok, \E p \in inflight : p[2] = c /\ p[1] # img)]
    /\ UNCHANGED <<anaVars, unitVars, liveVars, storeVars, isRunning, isDevMode, k8sMgr, dockerMgr, env,
                   lastPass, passes>>

\* applyK8sChanges up to its first await
K8sBegin(c) ==
    /\ call[c].pc = "k8s"
    /\ LET kc == K8sChangesOf(c)
           total == Len(kc.added) + Len(kc.modified) + Len(kc.removed)
       IN  IF total = 0
           THEN call' = [call EXCEPT ![c].pc = "live"]
           ELSE call' = [call EXCEPT ![c].pc = "k8s_delete", ![c].todo = kc.removed]
    /\ UNCHANGED <<anaVars, unitVars, liveVars, storeVars, isRunning, isDevMode, k8sMgr, dockerMgr, env, inflight,
                   ops, lastPass, passes>>

\* one deleteYaml of the removal loop (it never throws)
K8sDelete(c) ==
    /\ call[c].pc = "k8s_delete"
    /\ call[c].todo # <<>>
    /\ ops' = [ops EXCEPT ![c].deleted = @ \cup {Head(call[c].todo)}]
    /\ call' = [call EXCEPT ![c].todo = Tail(@)]
    /\ UNCHANGED <<anaVars, unitVars, liveVars, storeVars, isRunning, isDevMode, k8sMgr, dockerMgr, env, inflight,
                   lastPass, passes>>

\* the apply loop is entered
K8sApplyBegin(c) ==
    /\ call[c].pc = "k8s_delete"
    /\ RemovalsDone(call[c])
    /\ LET yamls == YamlToApply(c)
       IN  call' = [call EXCEPT ![c].pc = IF yamls = <<>> THEN "live" ELSE "k8s_apply",
                                ![c].todo = yamls]
    /\ UNCHANGED <<anaVars, unitVars, liveVars, storeVars, isRunning, isDevMode, k8sMgr, dockerMgr, env, inflight,
                   ops, lastPass, passes>>

\* the apply loop after one applyYaml: the next spec, the end of the loop, or
\* the rethrown error that ends applyK8sChanges
ApplyLoop(rec, ok) ==
    IF ~ok THEN [rec EXCEPT !.k8sSuccess = FALSE, !.pc = "live", !.todo = <<>>]
    ELSE IF Tail(rec.todo) = <<>> THEN [rec EXCEPT !.pc = "live", !.todo = <<>>]
    ELSE [rec EXCEPT !.todo = Tail(@)]

\* one applyYaml of the apply loop
K8sApply(c, ok) ==
    /\ call[c].pc = "k8s_apply"
    /\ ops' = [ops EXCEPT ![c].applied = IF ok THEN @ \cup {Head(call[c].todo)} ELSE @,
                          ![c].applyFailed = IF ok THEN @ ELSE @ \cup {Head(call[c].todo)}]
    /\ call' = [call EXCEPT ![c] = ApplyLoop(@, ok)]
    /\ UNCHANGED <<anaVars, unitVars, liveVars, storeVars, isRunning, isDevMode, k8sMgr, dockerMgr, env, inflight,
                   lastPass, passes>>

\* the builds setupLiveUpdates starts a session for
LiveUpdateBuilds(st) ==
    {k \in DOMAIN st.docker_build :
        /\ st.docker_build[k].hot.kind = "object"
        /\ Len(st.docker_build[k].hot.live_update) > 0}

\* a condition that starts live updates although the Kubernetes part failed
ShouldStartLiveUpdates_ignoresK8s(rec) == rec.devMode /\ rec.dockerSuccess

\* "Set up live updates if in dev mode and deployments succeeded"
ShouldStartLiveUpdates(rec) == rec.devMode /\ rec.dockerSuccess /\ rec.k8sSuccess

\* setupLiveUpdates: one startLiveUpdate per build with live_update steps,
\* each of which may or may not end with a session
SetupLiveUpdates(c) ==
    /\ call[c].pc = "live"
    /\ ops' = [ops EXCEPT ![c].live =
                  IF ShouldStartLiveUpdates(call[c]) THEN LiveUpdateBuilds(state) ELSE @]
    /\ \E started \in SUBSET LiveUpdateBuilds(state) :
          sessions' = IF ShouldStartLiveUpdates(call[c])
                      THEN sessions \cup started ELSE sessions
    /\ call' = [call EXCEPT ![c].pc = "persist"]
    /\ UNCHANGED <<anaVars, unitVars, hasManagers, lum, storeVars, isRunning, isDevMode, k8sMgr, dockerMgr, env, inflight,
                   lastPass, passes>>

\* "Save state only if at least one operation succeeded"
ShouldSave(rec) == rec.dockerSuccess \/ rec.k8sSuccess

\* tiltConfig.writeToDisk(), which rethrows a write error
Persist(c) ==
    /\ call[c].pc = "persist"
    /\ \E diskOk \in BOOLEAN :
         IF ~ShouldSave(call[c])
         THEN /\ Leave(c, [call[c] EXCEPT !.pc = "done"], ops[c])
              /\ UNCHANGED <<disk, ops>>
         ELSE IF diskOk
         THEN /\ disk' = JsonFile(jsonStringify(state))
              /\ ops' = [ops EXCEPT ![c].wrote = "ok"]
              /\ Stay(c, [call[c] EXCEPT !.pc = "rebase"])
         ELSE /\ ops' = [ops EXCEPT ![c].wrote = "failed"]
              /\ Leave(c, [call[c] EXCEPT !.pc = "threw", !.cause = "persist"],
                       [ops[c] EXCEPT !.wrote = "failed"])
              /\ UNCHANGED disk
    /\ UNCHANGED <<anaVars, unitVars, liveVars, state, initialState, initialized, isDevMode, k8sMgr, dockerMgr,
                   env, inflight, passes>>

\* tiltConfig.reset(), then the return
Reset(c) ==
    /\ call[c].pc = "rebase"
    /\ initialState' = state
    /\ ops' = [ops EXCEPT ![c].rebased = TRUE]
    /\ Leave(c, [call[c] EXCEPT !.pc = "done"], [ops[c] EXCEPT !.rebased = TRUE])
    /\ UNCHANGED <<anaVars, unitVars, liveVars, state, initialized, disk, isDevMode, k8sMgr, dockerMgr, env,
                   inflight, passes>>

-----------------------------------------------------------------------------
(* DockerManager.buildImage and pushImageWithRetry, one call at a time *)

\* the retry budget buildImage gives to pushImageWithRetry
PushRetries == 3

\* what a failed command reports: stderr of a command that exited non-zero,
\* or the message of the error ShellExecutor rejects with
ErrorTexts == {"denied", "timed out"}

\* a command settles as success, as a result with success = false, or by
\* rejecting
CommandOutcomes ==
    {[ok |-> TRUE, thrown |-> FALSE, text |-> ""]}
    \cup {[ok |-> FALSE, thrown |-> t, text |-> e] : t \in BOOLEAN, e \in ErrorTexts}

NoCommand == [ok |-> FALSE, thrown |-> FALSE, text |-> "not run"]
NoError == [isNull |-> TRUE, message |-> <<>>]
Error(message) == [isNull |-> FALSE, message |-> message]

\* the message of the error a step throws for a failed command
FailureMessage(prefix, out) == IF out.thrown THEN <<out.text>> ELSE <<prefix, out.text>>

\* lastError?.message in the template string of the final error
OptionalMessage(error) == IF error.isNull THEN <<"undefined">> ELSE error.message

IdleBuild ==
    [pc |-> "idle", entry |-> "none", context |-> "", connectionVerified |-> FALSE,
     maxRetries |-> 0, attempt |-> 0, lastError |-> NoError, pushing |-> 0,
     log |-> <<>>, failures |-> <<>>, delays |-> <<>>,
     buildResult |-> NoCommand, imagesListed |-> FALSE, imagesResult |-> NoCommand,
     tagResult |-> NoCommand, result |-> "pending", error |-> NoError]

BuildIdle == bld = IdleBuild

\* the catch block of buildImage starts the cleanup; pushImageWithRetry called
\* on its own just rejects
BuildThrow(rec, message) ==
    IF rec.entry = "buildImage"
    THEN [rec EXCEPT !.pc = "cleanup_image", !.error = Error(message),
                     !.log = Append(@, "rmi image")]
    ELSE [rec EXCEPT !.pc = "threw", !.result = "rejected", !.error = Error(message)]

\* the loop test of pushImageWithRetry
LoopContinues_stopsEarly(attempt, maxRetries) == attempt < maxRetries
LoopContinues(attempt, maxRetries) == attempt <= maxRetries

\* the head of the retry loop: the next push is issued, or the loop is left
\* and the final error thrown
PushLoop(rec) ==
    IF LoopContinues(rec.attempt, rec.maxRetries)
    THEN [rec EXCEPT !.pc = "pushing", !.pushing = @ + 1, !.log = Append(@, "push")]
    ELSE BuildThrow(rec, <<"Failed to push after attempts: ">> \o OptionalMessage(rec.lastError))

\* pushImageWithRetry(imageTag, maxRetries) up to its first await
pushImageWithRetry(rec, maxRetries) ==
    PushLoop([rec EXCEPT !.maxRetries = maxRetries, !.attempt = 1, !.lastError = NoError])

\* a call of pushImageWithRetry on its own
PushEnter ==
    /\ bld.pc = "start"
    /\ bld.entry = "pushImageWithRetry"
    /\ bld' = pushImageWithRetry(bld, bld.maxRetries)
    /\ UNCHANGED <<anaVars, engineVarsButUnits, restVars, dcall, nsv, ld>>

\* a backoff that is waited for after every failed attempt
ShouldBackoff_always(attempt, maxRetries) == TRUE

\* the test in the catch block: the backoff is waited for when attempts are left
ShouldBackoff(attempt, maxRetries) == attempt < maxRetries

\* a push attempt settles: success returns; a failure is remembered and, when
\* attempts are left, followed by the backoff
PushSettle(out) ==
    /\ bld.pc = "pushing"
    /\ LET settled == [bld EXCEPT !.pushing = @ - 1]
           message == FailureMessage("Push failed: ", out)
           failed == [settled EXCEPT !.lastError = Error(message),
                                     !.failures = Append(@, message)]
       IN  bld' = IF out.ok THEN [settled EXCEPT !.pc = "done", !.result = "resolved"]
                  ELSE IF ShouldBackoff(bld.attempt, bld.maxRetries)
                  THEN [failed EXCEPT !.pc = "backoff",
                                      !.delays = Append(@, (2 ^ bld.attempt) * 1000)]
                  ELSE PushLoop([failed EXCEPT !.attempt = @ + 1])
    /\ UNCHANGED <<anaVars, engineVarsButUnits, restVars, dcall, nsv, ld>>

\* the backoff timer fires: next iteration of the loop
BackoffElapsed ==
    /\ bld.pc = "backoff"
    /\ bld' = PushLoop([bld EXCEPT !.attempt = @ + 1])
    /\ UNCHANGED <<anaVars, engineVarsButUnits, restVars, dcall, nsv, ld>>

\* buildImage(config) up to the await of checkConnection
BuildEnter ==
    /\ bld.pc = "start"
    /\ bld.entry = "buildImage"
    /\ bld' = [bld EXCEPT !.pc = "checkConnection"]
    /\ UNCHANGED <<anaVars, engineVarsButUnits, restVars, dcall, nsv, ld>>

\* checkConnection settles, then the build context is validated
CheckConnectionSettle(ok) ==
    /\ bld.pc = "checkConnection"
    /\ bld.connectionVerified => ok
    /\ bld' = IF ~ok THEN BuildThrow(bld, <<"Cannot connect to Docker daemon">>)
              ELSE IF bld.context = ""
              THEN BuildThrow([bld EXCEPT !.connectionVerified = TRUE],
                              <<"Build context is required">>)
              ELSE [bld EXCEPT !.connectionVerified = TRUE, !.pc = "contextExists"]
    /\ UNCHANGED <<anaVars, engineVarsButUnits, restVars, dcall, nsv, ld>>

\* Bun.file(context).exists()
ContextExistsSettle(exists) ==
    /\ bld.pc = "contextExists"
    /\ bld' = IF exists THEN [bld EXCEPT !.pc = "dockerfileExists"]
              ELSE BuildThrow(bld, <<"Build context path does not exist">>)
    /\ UNCHANGED <<anaVars, engineVarsButUnits, restVars, dcall, nsv, ld>>

\* a check of the Dockerfile made only after docker build has been issued
DockerfileExistsSettle_afterBuild(exists) ==
    /\ bld.pc = "dockerfileExists"
    /\ bld' = IF exists THEN [bld EXCEPT !.pc = "building", !.log = Append(@, "build")]
              ELSE BuildThrow([bld EXCEPT !.log = Append(@, "build")],
                              <<"Dockerfile not found">>)
    /\ UNCHANGED <<anaVars, engineVarsButUnits, restVars, dcall, nsv, ld>>

\* Bun.file(dockerfile).exists(), then docker build is issued
DockerfileExistsSettle(exists) ==
    /\ bld.pc = "dockerfileExists"
    /\ bld' = IF exists THEN [bld EXCEPT !.pc = "building", !.log = Append(@, "build")]
              ELSE BuildThrow(bld, <<"Dockerfile not found">>)
    /\ UNCHANGED <<anaVars, engineVarsButUnits, restVars, dcall, nsv, ld>>

\* docker build settles, then docker images is issued to verify the image
DockerBuildSettle(out) ==
    /\ bld.pc = "building"
    /\ LET seen == [bld EXCEPT !.buildResult = out]
       IN  bld' = IF out.ok THEN [seen EXCEPT !.pc = "verifying", !.log = Append(@, "images")]
                  ELSE BuildThrow(seen, FailureMessage("Build failed: ", out))
    /\ UNCHANGED <<anaVars, engineVarsButUnits, restVars, dcall, nsv, ld>>

\* docker images settles: the image counts as created when the command
\* succeeded and its output names the image; then docker tag is issued
ImageCreated_trustsExitCode(out, listed) == out.ok
ImageCreated(out, listed) == out.ok /\ listed

VerifySettle(out, listed) ==
    /\ bld.pc = "verifying"
    /\ LET seen == [bld EXCEPT !.imagesResult = out, !.imagesListed = listed]
       IN  bld' = IF out.thrown THEN BuildThrow(seen, <<out.text>>)
                  ELSE IF ImageCreated(out, listed)
                  THEN [seen EXCEPT !.pc = "tagging", !.log = Append(@, "tag")]
                  ELSE BuildThrow(seen, <<"Image was not created successfully">>)
    /\ UNCHANGED <<anaVars, engineVarsButUnits, restVars, dcall, nsv, ld>>

\* docker tag settles, then the push to the registry starts
TagSettle(out) ==
    /\ bld.pc = "tagging"
    /\ LET seen == [bld EXCEPT !.tagResult = out]
       IN  bld' = IF out.ok THEN pushImageWithRetry(seen, PushRetries)
                  ELSE BuildThrow(seen, FailureMessage("Failed to tag image: ", out))
    /\ UNCHANGED <<anaVars, engineVarsButUnits, restVars, dcall, nsv, ld>>

\* catch block of buildImage: the first docker rmi settles; when it rejects
\* the second one is skipped; the caught error is rethrown at the end
CleanupImageSettle(thrown) ==
    /\ bld.pc = "cleanup_image"
    /\ bld' = IF thrown THEN [bld EXCEPT !.pc = "threw", !.result = "rejected"]
              ELSE [bld EXCEPT !.pc = "cleanup_tag", !.log = Append(@, "rmi tag")]
    /\ UNCHANGED <<anaVars, engineVarsButUnits, restVars, dcall, nsv, ld>>

CleanupTagSettle ==
    /\ bld.pc = "cleanup_tag"
    /\ bld' = [bld EXCEPT !.pc = "threw", !.result = "rejected"]
    /\ UNCHANGED <<anaVars, engineVarsButUnits, restVars, dcall, nsv, ld>>

\* the calls made: pushImageWithRetry with every retry budget up to the bound,
\* buildImage with and without a build context on a new or a verified manager
BuildCalls ==
    {[IdleBuild EXCEPT !.pc = "start", !.entry = "pushImageWithRetry", !.maxRetries = m]
        : m \in 0..MaxRetries}
    \cup {[IdleBuild EXCEPT !.pc = "start", !.entry = "buildImage", !.context = c,
                            !.connectionVerified = v]
        : c \in {"", "."}, v \in BOOLEAN}

BuildNext ==
    \/ PushEnter
    \/ \E out \in CommandOutcomes : PushSettle(out)
    \/ BackoffElapsed
    \/ BuildEnter
    \/ \E ok \in BOOLEAN : CheckConnectionSettle(ok)
    \/ \E exists \in BOOLEAN : ContextExistsSettle(exists)
    \/ \E exists \in BOOLEAN : DockerfileExistsSettle(exists)
    \/ \E out \in CommandOutcomes : DockerBuildSettle(out)
    \/ \E out \in CommandOutcomes, listed \in BOOLEAN : VerifySettle(out, listed)
    \/ \E out \in CommandOutcomes : TagSettle(out)
    \/ \E thrown \in BOOLEAN : CleanupImageSettle(thrown)
    \/ CleanupTagSettle

-----------------------------------------------------------------------------
(* normalizeNamespace applied to one string: on its own, twice in a row, and *)
(* through TiltConfig.init and TiltConfig.setK8sNamespace                    *)

\* the characters of the strings tried: a lowercase letter, an uppercase
\* letter, a digit, the hyphen, an invalid character and whitespace
NsChars == {"a", "B", "7", "-", "_", " "}

Fill(n) == [i \in 1..n |-> "a"]

ShortInputs == SeqsUpTo(NsChars, MaxNsLen)

\* a short string padded so that it ends where a long namespace is cut, and
\* followed by enough characters to pass the limit
LongInputs ==
    {Fill(TruncatedLength - MaxNsLen) \o str \o Fill(NamespaceLimit - TruncatedLength + 1)
        : str \in ShortInputs}

NsInputs == ShortInputs \cup LongInputs

IdleNs == [input |-> <<>>, step |-> 0, once |-> <<>>, twice |-> <<>>, set |-> "no"]

NsIdle == nsv = IdleNs

\* normalizeNamespace(input)
Normalize ==
    /\ nsv.step = 0
    /\ nsv' = [nsv EXCEPT !.step = 1, !.once = normalizeNamespace(nsv.input)]
    /\ UNCHANGED <<anaVars, engineVarsButUnits, restVars, dcall, bld, ld>>

\* normalizeNamespace of the result
NormalizeAgain ==
    /\ nsv.step = 1
    /\ nsv' = [nsv EXCEPT !.step = 2, !.twice = normalizeNamespace(nsv.once)]
    /\ UNCHANGED <<anaVars, engineVarsButUnits, restVars, dcall, bld, ld>>

\* init() by a single caller
NsStoreInit ==
    /\ ~initialized
    /\ state' = StoreInit(state, disk)
    /\ initialState' = StoreInit(state, disk)
    /\ initialized' = TRUE
    /\ UNCHANGED <<anaVars, unitVars, liveVars, disk, isRunning, isDevMode, call, k8sMgr,
                   dockerMgr, env, inflight, ops, lastPass, passes>>

\* the argument check of setK8sNamespace
NamespaceRejected(namespace) == Len(namespace) = 0 \/ Len(trim(namespace)) = 0

\* setK8sNamespace(input) by a single caller
NsSetK8sNamespace ==
    /\ nsv.set = "no"
    /\ initialState' = EnsuredInitial
    /\ initialized' = TRUE
    /\ IF NamespaceRejected(nsv.input)
       THEN /\ state' = EnsuredState
            /\ nsv' = [nsv EXCEPT !.set = "rejected"]
       ELSE /\ state' = [EnsuredState EXCEPT !.k8s.namespace = normalizeNamespace(nsv.input)]
            /\ nsv' = [nsv EXCEPT !.set = "done"]
    /\ UNCHANGED <<anaVars, liveVars, restVars, dcall, bld, ld, disk, isRunning, isDevMode, call,
                   k8sMgr, dockerMgr, env, inflight, ops, lastPass, passes>>

NsNext ==
    \/ Normalize
    \/ NormalizeAgain
    \/ NsStoreInit
    \/ NsSetK8sNamespace

-----------------------------------------------------------------------------
(* Loading of one TiltConfig: init(), ensureInitialized() and the calls that *)
(* go through it, one action per stretch between two awaits                  *)

Loads == 1..MaxLoads

StoreOps == {"init", "getState", "reset", "writeToDisk", "setK8sNamespace"}

\* the namespaces given to setK8sNamespace: a valid one, one made of an
\* invalid character, and a blank one
StoreNamespaces == {<<"d", "e", "v">>, <<"_">>, <<" ">>}

NoLoad == [fromFile |-> FALSE, doc |-> DefaultState]

IdleStoreCall ==
    [op |-> "none", arg |-> <<>>, pc |-> "idle", waitsOn |-> 0, promise |-> "none",
     loaded |-> NoLoad]

\* _initPromise (0 is null, else the call whose init() it is), the store
\* calls, the object the constructor built once it is no longer the live
\* state, and what is observed: file reads, assignments from a load, the state
\* last written and the state a new store first loaded
IdleLoad ==
    [initPromise |-> 0, calls |-> [l \in Loads |-> IdleStoreCall],
     liveIsOrig |-> TRUE, orig |-> DefaultState,
     reads |-> 0, assigns |-> 0, registered |-> "no",
     written |-> FALSE, snapshot |-> DefaultState,
     fresh |-> FALSE, persisted |-> DefaultState, firstLoaded |-> DefaultState]

LoadIdle == ld = IdleLoad

\* the object passed to getCachedConfig as initialTiltState
OrigValue == IF ld.liveIsOrig THEN state ELSE ld.orig

\* a call on the store up to its first await: init() tests _initialized and
\* starts getCachedConfig; the others go through ensureInitialized, which
\* returns, awaits the init promise, or creates it
StoreCall(l, op, arg) ==
    /\ ld.calls[l].pc = "idle"
    /\ \A e \in Loads : e < l => ld.calls[e].pc # "idle"
    /\ (op # "setK8sNamespace") => arg = <<>>
    /\ LET c == [ld.calls[l] EXCEPT !.op = op, !.arg = arg]
       IN  ld' =
             IF initialized
             THEN [ld EXCEPT !.calls[l] =
                     [c EXCEPT !.pc = IF op = "init" THEN "done" ELSE "awaiting"]]
             ELSE IF op # "init" /\ ld.initPromise # 0
             THEN [ld EXCEPT !.calls[l] =
                     [c EXCEPT !.pc = "awaiting", !.waitsOn = ld.initPromise]]
             ELSE [ld EXCEPT !.calls[l] =
                     [c EXCEPT !.pc = "loading", !.waitsOn = l, !.promise = "pending"],
                             !.initPromise = IF op = "init" THEN @ ELSE l]
    /\ UNCHANGED <<anaVars, engineVarsButUnits, restVars, dcall, bld, nsv>>

\* getCachedConfig: the file is read when it exists
FileRead(l) ==
    /\ ld.calls[l].pc = "loading"
    /\ ld' = [ld EXCEPT !.calls[l].pc = "loaded",
                        !.calls[l].loaded =
                            [fromFile |-> disk.exists /\ disk.readable /\ disk.parses,
                             doc |-> getCachedConfig(disk, DefaultState)],
                        !.reads = IF disk.exists THEN @ + 1 ELSE @]
    /\ UNCHANGED <<anaVars, engineVarsButUnits, restVars, dcall, bld, nsv>>

\* reading k8s.namespace of the loaded value throws when k8s is missing, and
\* normalizeNamespace throws when the namespace is
InitThrows(loaded) == "k8s" \notin DOMAIN loaded \/ "namespace" \notin DOMAIN loaded.k8s

\* init() after getCachedConfig: the live state is replaced, then normalized,
\* cloned into the baseline and marked initialized
InitAssign(l) ==
    /\ ld.calls[l].pc = "loaded"
    /\ LET c == ld.calls[l]
           loaded == IF c.loaded.fromFile THEN c.loaded.doc ELSE OrigValue
           throws == InitThrows(loaded)
           newState == IF throws THEN loaded
                       ELSE [loaded EXCEPT !.k8s.namespace = normalizeNamespace(@)]
           objects == [ld EXCEPT !.orig = OrigValue, !.liveIsOrig = ~c.loaded.fromFile]
       IN  /\ state' = newState
           /\ initialState' = IF throws THEN initialState ELSE newState
           /\ initialized' = IF throws THEN initialized ELSE TRUE
           /\ ld' = IF throws
                    THEN [objects EXCEPT
                            !.calls[l].promise = "rejected",
                            !.calls[l].pc = IF c.op = "init" THEN "threw" ELSE "awaiting"]
                    ELSE [objects EXCEPT
                            !.calls[l].promise = "resolved",
                            !.calls[l].pc = IF c.op = "init" THEN "done" ELSE "awaiting",
                            !.initPromise = 0,
                            !.assigns = @ + 1,
                            !.firstLoaded = IF ld.assigns = 0 THEN newState ELSE @]
    /\ UNCHANGED <<anaVars, unitVarsButLd, liveVars, disk, isRunning, isDevMode, call, k8sMgr,
                   dockerMgr, env, inflight, ops, lastPass, passes>>

\* the promise a call awaits has settled (a call that found the store
\* initialized awaits nothing but still resumes later)
PromiseSettled(c) ==
    IF c.waitsOn = 0 THEN TRUE ELSE ld.calls[c.waitsOn].promise \in {"resolved", "rejected"}

\* a call resumes after ensureInitialized: it rejects with the load, or runs
\* its body up to the next await
Resume(l) ==
    /\ ld.calls[l].pc = "awaiting"
    /\ PromiseSettled(ld.calls[l])
    /\ LET c == ld.calls[l]
           failed == IF c.waitsOn = 0 THEN FALSE
                     ELSE ld.calls[c.waitsOn].promise = "rejected"
           sets == ~failed /\ c.op = "setK8sNamespace" /\ ~NamespaceRejected(c.arg)
       IN  /\ ld' = [ld EXCEPT !.calls[l].pc =
                        IF failed THEN "threw"
                        ELSE IF c.op = "writeToDisk" THEN "writing"
                        ELSE IF c.op = "setK8sNamespace" /\ ~sets THEN "rejected"
                        ELSE "done"]
           /\ state' = IF sets THEN [state EXCEPT !.k8s.namespace = normalizeNamespace(c.arg)]
                       ELSE state
           /\ initialState' = IF ~failed /\ c.op = "reset" THEN state ELSE initialState
    /\ UNCHANGED <<anaVars, unitVarsButLd, liveVars, initialized, disk, isRunning, isDevMode,
                   call, k8sMgr, dockerMgr, env, inflight, ops, lastPass, passes>>

\* writeToDisk after mkdir: the live state is serialized and written
WriteFile(l, ok) ==
    /\ ld.calls[l].pc = "writing"
    /\ IF ok
       THEN /\ disk' = JsonFile(jsonStringify(state))
            /\ ld' = [ld EXCEPT !.calls[l].pc = "done", !.written = TRUE, !.snapshot = state]
       ELSE /\ disk' = disk
            /\ ld' = [ld EXCEPT !.calls[l].pc = "write failed"]
    /\ UNCHANGED <<anaVars, unitVarsButLd, liveVars, state, initialState, initialized,
                   isRunning, isDevMode, call, k8sMgr, dockerMgr, env, inflight, ops,
                   lastPass, passes>>

\* addDockerBuild: synchronous, on whatever the live state is
AddDockerBuild(config) ==
    /\ ld.registered = "no"
    /\ IF "docker_build" \in DOMAIN state
       THEN /\ state' = [state EXCEPT !.docker_build =
                            [k \in DOMAIN @ \cup {config.imageName} |->
                                IF k = config.imageName THEN config ELSE @[k]]]
            /\ ld' = [ld EXCEPT !.registered = "yes"]
       ELSE /\ state' = state
            /\ ld' = [ld EXCEPT !.registered = "threw"]
    /\ UNCHANGED <<anaVars, unitVarsButLd, liveVars, initialState, initialized, disk,
                   isRunning, isDevMode, call, k8sMgr, dockerMgr, env, inflight, ops,
                   lastPass, passes>>

\* a new process: a new TiltConfig over the file the previous one wrote
FreshStore ==
    /\ ld.written
    /\ ~ld.fresh
    /\ state' = DefaultState
    /\ initialState' = DefaultState
    /\ initialized' = FALSE
    /\ ld' = [IdleLoad EXCEPT !.fresh = TRUE, !.persisted = ld.snapshot]
    /\ UNCHANGED <<anaVars, unitVarsButLd, liveVars, disk, isRunning, isDevMode, call, k8sMgr,
                   dockerMgr, env, inflight, ops, lastPass, passes>>

\* a state document that lacks k8s, and one that lacks the two registries
DocumentWithoutK8s == [docker |-> DefaultState.docker]
DocumentWithoutRegistrations == [docker |-> DefaultState.docker, k8s |-> DefaultState.k8s]

\* a document has the four top-level parts of a GlobalTiltState
WellFormedDocument(doc) == DOMAIN doc = DOMAIN DefaultState

\* the state files a store is started on
StoreFiles ==
    {NoFile, UnreadableFile, CorruptFile,
     JsonFile(DocumentWithoutK8s), JsonFile(DocumentWithoutRegistrations),
     JsonFile(jsonStringify(
         [DefaultState EXCEPT !.docker_build = Tiltfile({W1}, {}).docker_build,
                              !.k8s_yaml = Tiltfile({}, {"k8s/a.yaml"}).k8s_yaml]))}

StoreNext ==
    \/ \E l \in Loads, op \in StoreOps, arg \in StoreNamespaces \cup {<<>>} : StoreCall(l, op, arg)
    \/ \E l \in Loads : FileRead(l)
    \/ \E l \in Loads : InitAssign(l)
    \/ \E l \in Loads : Resume(l)
    \/ \E l \in Loads, ok \in BOOLEAN : WriteFile(l, ok)
    \/ \E config \in {A1, W1} : AddDockerBuild(config)
    \/ FreshStore

-----------------------------------------------------------------------------
(* TiltConfig registrations, setters, reset() and the diff against the      *)
(* baseline, by one caller                                                   *)

\* structuredClone of a state: a deep copy that keeps a property whose value
\* is undefined
structuredClone_viaJson(value) == jsonStringify(value)
structuredClone(value) == value

\* addDockerBuild(imageName, buildContext, hot): synchronous, no loading
RegisterBuild(config) ==
    /\ state' = [state EXCEPT !.docker_build =
                    [k \in DOMAIN @ \cup {config.imageName} |->
                        IF k = config.imageName THEN config ELSE @[k]]]
    /\ UNCHANGED <<anaVars, unitVars, liveVars, initialState, initialized, disk, isRunning,
                   isDevMode, call, k8sMgr, dockerMgr, env, inflight, ops, lastPass, passes>>

\* addK8sYaml(yamlPath): synchronous, no loading
RegisterYaml(yamlPath) ==
    /\ state' = [state EXCEPT !.k8s_yaml =
                    [k \in DOMAIN @ \cup {yamlPath} |->
                        IF k = yamlPath THEN K8sYamlConfig(yamlPath) ELSE @[k]]]
    /\ UNCHANGED <<anaVars, unitVars, liveVars, initialState, initialized, disk, isRunning,
                   isDevMode, call, k8sMgr, dockerMgr, env, inflight, ops, lastPass, passes>>

\* setK8sNamespace(namespace)
SetNamespace(namespace) ==
    /\ state' = IF NamespaceRejected(namespace) THEN EnsuredState
                ELSE [EnsuredState EXCEPT !.k8s.namespace = normalizeNamespace(namespace)]
    /\ initialState' = EnsuredInitial
    /\ initialized' = TRUE
    /\ UNCHANGED <<anaVars, unitVars, liveVars, disk, isRunning, isDevMode, call, k8sMgr,
                   dockerMgr, env, inflight, ops, lastPass, passes>>

\* reset(): the baseline becomes a clone of the live state
StoreReset ==
    /\ state' = EnsuredState
    /\ initialState' = structuredClone(EnsuredState)
    /\ initialized' = TRUE
    /\ UNCHANGED <<anaVars, unitVars, liveVars, disk, isRunning, isDevMode, call, k8sMgr,
                   dockerMgr, env, inflight, ops, lastPass, passes>>

\* analyzeChanges(await getInitialState(), await getState())
StoreAnalyze ==
    /\ state' = EnsuredState
    /\ initialState' = EnsuredInitial
    /\ initialized' = TRUE
    /\ anaOld' = structuredClone(EnsuredInitial)
    /\ anaNew' = EnsuredState
    /\ LET changes == analyzeChanges(structuredClone(EnsuredInitial), EnsuredState)
       IN  anaOut' = [done |-> TRUE, changes |-> changes,
                      docker |-> getDockerBuildChanges(changes),
                      k8s |-> getK8sYamlChanges(changes)]
    /\ UNCHANGED <<unitVars, liveVars, disk, isRunning, isDevMode, call, k8sMgr, dockerMgr,
                   env, inflight, ops, lastPass, passes>>

Registration ==
    \/ \E config \in {A1, W1} : RegisterBuild(config)
    \/ \E yamlPath \in {"k8s/a.yaml"} : RegisterYaml(yamlPath)

Setter == \E namespace \in {<<"d", "e", "v">>, <<" ">>} : SetNamespace(namespace)

RebaseNext ==
    \/ Registration
    \/ Setter
    \/ StoreReset
    \/ StoreAnalyze

-----------------------------------------------------------------------------
(* The parts below are idle unless their own specification runs them *)

otherThanLv == <<anaVars, engineVarsButUnits, dcall, bld, nsv, ld, pat, ay, km, fe>>

LiveCalls == 1..MaxLiveCalls

\* a call on the LiveUpdateManager: the watcher.close() awaits it has pending
\* (image and watcher), those that failed and those that succeeded
IdleLiveCall ==
    [op |-> "none", imageName |-> "", pc |-> "idle",
     closing |-> {}, failed |-> {}, closed |-> {}]

\* the session map (image name to the watcher of its session, 0 for no
\* session), the watchers that are open, and the calls; a watcher is named by
\* the call that created it
IdleLive ==
    [sessions |-> [i \in Images |-> 0], open |-> {},
     calls |-> [k \in LiveCalls |-> IdleLiveCall]]
\* a matchesPattern(filePath, pattern) call and its result
IdlePattern == [pc |-> "idle", filePath |-> <<>>, pattern |-> <<>>, result |-> FALSE]
\* an applyYaml call: the number of files resolved, the file the loop is at,
\* the kubectl commands issued, and the files whose validation succeeded,
\* whose validation failed and whose apply was issued
IdleApply ==
    [pc |-> "idle", files |-> 0, file |-> 0, log |-> <<>>,
     valid |-> {}, invalid |-> {}, applied |-> {}, got |-> 0, deployments |-> {},
     result |-> "pending"]

ManagerCalls == 1..MaxManagerCalls

\* a call of initialize() on the KubernetesManager: the kubectl commands it
\* issued, the value of each flag when it entered the check the flag caches,
\* and whether its own checks succeeded
IdleManagerCall ==
    [pc |-> "idle", issued |-> {}, contextWasCached |-> FALSE, namespaceWasCached |-> FALSE,
     connected |-> FALSE, ensured |-> FALSE, result |-> "pending"]

IdleManager ==
    [contextAvailable |-> FALSE, namespaceReady |-> FALSE,
     calls |-> [k \in ManagerCalls |-> IdleManagerCall]]
Events == 1..MaxEvents

\* the handling of one file-change event: where it stands, the live_update
\* step it is at, the steps it has gone through, whether a command of it did
\* not succeed, and whether the session was active when the event was
\* delivered; the log of the session holds the commands in the order they
\* were issued
IdleEvent ==
    [pc |-> "idle", step |-> 0, considered |-> {}, failed |-> FALSE, activeAtDelivery |-> FALSE]

\* no session: nothing started, no event
IdleEvents ==
    [isActive |-> FALSE, stored |-> FALSE, stop |-> "none",
     events |-> [e \in Events |-> IdleEvent], log |-> <<>>]

LiveIdle == lv = IdleLive
PatternIdle == pat = IdlePattern
ApplyIdle == ay = IdleApply
ManagerIdle == km = IdleManager
EventsIdle == fe = IdleEvents
RestIdle == LiveIdle /\ PatternIdle /\ ApplyIdle /\ ManagerIdle /\ EventsIdle

-----------------------------------------------------------------------------
(* LiveUpdateManager: startLiveUpdate, stopLiveUpdate, stopAllLiveUpdates   *)

\* calls are made one after the other; they complete in any order
NextLiveCall(k) ==
    /\ lv.calls[k].pc = "idle"
    /\ \A j \in LiveCalls : j < k => lv.calls[j].pc # "idle"

\* stopLiveUpdate(imageName) up to its await: nothing to do without a session,
\* else watcher.close() of the stored session is awaited
stopLiveUpdate(rec, imageName, after) ==
    IF lv.sessions[imageName] = 0
    THEN [rec EXCEPT !.pc = after]
    ELSE [rec EXCEPT !.pc = "stopping",
                     !.closing = {<<imageName, lv.sessions[imageName]>>}]

HasLiveUpdate(config) ==
    config.hot.kind = "object" /\ Len(config.hot.live_update) > 0

\* startLiveUpdate(config) up to the first await that takes time
StartLiveUpdate(k, config) ==
    /\ NextLiveCall(k)
    /\ LET rec == [IdleLiveCall EXCEPT !.op = "start", !.imageName = config.imageName]
       IN  lv' = [lv EXCEPT !.calls[k] =
                    IF ~HasLiveUpdate(config) THEN [rec EXCEPT !.pc = "done"]
                    ELSE stopLiveUpdate(rec, config.imageName, "findPod")]
    /\ UNCHANGED otherThanLv

\* stopLiveUpdate(imageName) called on its own
StopLiveUpdate(k, imageName) ==
    /\ NextLiveCall(k)
    /\ lv' = [lv EXCEPT !.calls[k] =
                stopLiveUpdate([IdleLiveCall EXCEPT !.op = "stop", !.imageName = imageName],
                               imageName, "done")]
    /\ UNCHANGED otherThanLv

\* stopAllLiveUpdates up to its await: stopLiveUpdate of every stored session
LiveStopAll(k) ==
    /\ NextLiveCall(k)
    /\ LET names == {i \in Images : lv.sessions[i] # 0}
           rec == [IdleLiveCall EXCEPT !.op = "stopAll"]
       IN  lv' = [lv EXCEPT !.calls[k] =
                    IF names = {} THEN [rec EXCEPT !.pc = "done"]
                    ELSE [rec EXCEPT !.pc = "stopping",
                                     !.closing = {<<i, lv.sessions[i]>> : i \in names}]]
    /\ UNCHANGED otherThanLv

\* where the caller of stopLiveUpdate goes when a watcher.close() settles:
\* startLiveUpdate and stopLiveUpdate reject with the failure, and Promise.all
\* in stopAllLiveUpdates rejects with the first failure
AfterClose(rec, ok, left) ==
    IF rec.pc # "stopping" THEN rec
    ELSE IF ~ok THEN [rec EXCEPT !.pc = "threw"]
    ELSE IF rec.op = "start" THEN [rec EXCEPT !.pc = "findPod"]
    ELSE IF left = {} THEN [rec EXCEPT !.pc = "done"]
    ELSE rec

\* one watcher.close() settles; after a close stopLiveUpdate deletes the entry
\* stored under the image name. A close that fails may or may not have
\* released the watcher.
LiveCloseSettle(k, p, ok, released) ==
    /\ p \in lv.calls[k].closing
    /\ ok => released
    /\ LET left == lv.calls[k].closing \ {p}
           rec == [lv.calls[k] EXCEPT !.closing = left,
                                      !.failed = IF ok THEN @ ELSE @ \cup {p},
                                      !.closed = IF ok THEN @ \cup {p} ELSE @]
       IN  lv' = [lv EXCEPT !.calls[k] = AfterClose(rec, ok, left),
                            !.open = IF released THEN @ \ {p[2]} ELSE @,
                            !.sessions[p[1]] = IF ok THEN 0 ELSE @]
    /\ UNCHANGED otherThanLv

\* findPodForImage settles (it never throws); with a running pod the watcher
\* is created and the session stored under the image name
FindPodSettle(k, found) ==
    /\ lv.calls[k].pc = "findPod"
    /\ lv' = IF found
             THEN [lv EXCEPT !.calls[k].pc = "done",
                             !.open = @ \cup {k},
                             !.sessions[lv.calls[k].imageName] = k]
             ELSE [lv EXCEPT !.calls[k].pc = "done"]
    /\ UNCHANGED otherThanLv

LiveNext ==
    \/ \E k \in LiveCalls, config \in {A1, A3, W1} : StartLiveUpdate(k, config)
    \/ \E k \in LiveCalls, imageName \in Images : StopLiveUpdate(k, imageName)
    \/ \E k \in LiveCalls : LiveStopAll(k)
    \/ \E k \in LiveCalls, p \in Images \X LiveCalls, ok \in BOOLEAN, released \in BOOLEAN :
          LiveCloseSettle(k, p, ok, released)
    \/ \E k \in LiveCalls, found \in BOOLEAN : FindPodSettle(k, found)

-----------------------------------------------------------------------------
(* LiveUpdateManager.matchesPattern *)

otherThanPat == <<anaVars, engineVarsButUnits, dcall, bld, nsv, ld, lv, ay, km, fe>>

\* pattern.includes(ch)
Includes(str, ch) == \E i \in 1..Len(str) : str[i] = ch

\* str.startsWith(prefix)
StartsWith(str, prefix) ==
    Len(prefix) <= Len(str) /\ SubSeq(str, 1, Len(prefix)) = prefix

Drop(str, n) == SubSeq(str, n + 1, Len(str))

\* the source of the regular expression, as a sequence of its parts: "**"
\* becomes ".*", a remaining "*" becomes "[^/]*", "?" becomes "[^/]", and
\* every other character is copied as it is, so "." stays the regular
\* expression's any-character
RECURSIVE GlobToRegex(_)
GlobToRegex(glob) ==
    IF glob = <<>> THEN <<>>
    ELSE IF Len(glob) >= 2 /\ glob[1] = "*" /\ glob[2] = "*"
         THEN <<".*">> \o GlobToRegex(Drop(glob, 2))
    ELSE IF glob[1] = "*" THEN <<"[^/]*">> \o GlobToRegex(Tail(glob))
    ELSE IF glob[1] = "?" THEN <<"[^/]">> \o GlobToRegex(Tail(glob))
    ELSE <<glob[1]>> \o GlobToRegex(Tail(glob))

\* new RegExp("^" + source + "$").test(str)
RECURSIVE RegexTest(_, _)
RegexTest(regex, str) ==
    IF regex = <<>> THEN str = <<>>
    ELSE IF regex[1] = ".*"
         THEN \E n \in 0..Len(str) : RegexTest(Tail(regex), Drop(str, n))
    ELSE IF regex[1] = "[^/]*"
         THEN \E n \in 0..Len(str) :
                 /\ ~Includes(SubSeq(str, 1, n), "/")
                 /\ RegexTest(Tail(regex), Drop(str, n))
    ELSE IF regex[1] = "[^/]"
         THEN str # <<>> /\ str[1] # "/" /\ RegexTest(Tail(regex), Tail(str))
    ELSE IF regex[1] = "."
         THEN str # <<>> /\ RegexTest(Tail(regex), Tail(str))
    ELSE str # <<>> /\ str[1] = regex[1] /\ RegexTest(Tail(regex), Tail(str))

\* matchesPattern(filePath, pattern)
matchesPattern(filePath, pattern) ==
    IF Includes(pattern, "*")
    THEN RegexTest(GlobToRegex(pattern), filePath)
    ELSE filePath = pattern \/ StartsWith(filePath, pattern \o <<"/">>)

\* the characters tried: a name character, the separator, the dot and the
\* two wildcards
PathChars == {"a", "/", "."}
PatternChars == PathChars \cup {"*", "?"}

\* "src/**/*" on "src/a/b.js" and "package.json" on "src/package.json", with
\* every name shortened to one character
ExamplePatterns == {<<"a", "/", "*", "*", "/", "*">>, <<"a", ".", "a">>}
ExamplePaths == {<<"a", "/", "a", "/", "a", ".", "a">>, <<"a", "/", "a", ".", "a">>}

Patterns == {str \in SeqsUpTo(PatternChars, MaxPatternLen) : str # <<>>} \cup ExamplePatterns
Paths == {str \in SeqsUpTo(PathChars, MaxPathLen) : str # <<>>} \cup ExamplePaths

MatchesPattern ==
    /\ pat.pc = "called"
    /\ pat' = [pat EXCEPT !.pc = "done",
                          !.result = matchesPattern(pat.filePath, pat.pattern)]
    /\ UNCHANGED otherThanPat

-----------------------------------------------------------------------------
(* KubernetesManager.applyYaml, one call *)

otherThanAy == <<anaVars, engineVarsButUnits, dcall, bld, nsv, ld, lv, pat, km, fe>>

\* a kubectl command returns success, returns failure, or the executor rejects
ShellOutcomes == {"success", "failure", "rejected"}

\* the catch block of applyYaml logs and rethrows
ApplyThrow(rec) == [rec EXCEPT !.pc = "threw", !.result = "rejected"]

\* the head of the loop of waitForDeployments: kubectl get of the next file
\* is issued, or the deployments found are waited for; without any,
\* waitForDeployments returns and applyYaml resolves
GetLoopHead(rec) ==
    IF rec.got < rec.files
    THEN [rec EXCEPT !.pc = "getting", !.got = @ + 1,
                     !.log = Append(@, <<"get", rec.got + 1>>)]
    ELSE IF rec.deployments = {}
    THEN [rec EXCEPT !.pc = "done", !.result = "resolved"]
    ELSE [rec EXCEPT !.pc = "waiting"]

\* the head of the loop over yamlFiles: the dry-run validation of the next
\* file is issued, or the loop is over and waitForDeployments is entered
ApplyLoopHead(rec) ==
    IF rec.file < rec.files
    THEN [rec EXCEPT !.pc = "validating", !.file = @ + 1,
                     !.log = Append(@, <<"validate", rec.file + 1>>)]
    ELSE GetLoopHead(rec)

\* verifyContext settles in this.initialize()
VerifyContextSettle(contextReady) ==
    /\ ay.pc = "verifyContext"
    /\ ay' = IF contextReady THEN [ay EXCEPT !.pc = "ensureNamespace"] ELSE ApplyThrow(ay)
    /\ UNCHANGED otherThanAy

\* ensureNamespace settles in this.initialize()
EnsureNamespaceSettle(namespaceReady) ==
    /\ ay.pc = "ensureNamespace"
    /\ ay' = IF namespaceReady THEN [ay EXCEPT !.pc = "resolving"] ELSE ApplyThrow(ay)
    /\ UNCHANGED otherThanAy

\* resolveYamlFiles settles: it throws for a missing path; with no file
\* applyYaml returns
ResolveSettle(exists) ==
    /\ ay.pc = "resolving"
    /\ ay' = IF ~exists THEN ApplyThrow(ay)
             ELSE IF ay.files = 0 THEN [ay EXCEPT !.pc = "done", !.result = "resolved"]
             ELSE ApplyLoopHead(ay)
    /\ UNCHANGED otherThanAy

\* after kubectl apply --dry-run=client: on success kubectl apply is issued,
\* on failure "Invalid YAML in <file>" is thrown
AfterValidate(rec, out) ==
    IF out = "success"
    THEN [rec EXCEPT !.pc = "applying", !.valid = @ \cup {rec.file},
                     !.applied = @ \cup {rec.file},
                     !.log = Append(@, <<"apply", rec.file>>)]
    ELSE IF out = "failure"
    THEN ApplyThrow([rec EXCEPT !.invalid = @ \cup {rec.file}])
    ELSE ApplyThrow(rec)

\* kubectl apply --dry-run=client settles
ValidateSettle(out) ==
    /\ ay.pc = "validating"
    /\ ay' = AfterValidate(ay, out)
    /\ UNCHANGED otherThanAy

\* kubectl apply settles
ApplySettle(out) ==
    /\ ay.pc = "applying"
    /\ ay' = IF out = "success" THEN ApplyLoopHead(ay) ELSE ApplyThrow(ay)
    /\ UNCHANGED otherThanAy

\* kubectl get settles in waitForDeployments: the file names a deployment or
\* not; a rejection is caught and ends the wait
GetSettle(out, named) ==
    /\ ay.pc = "getting"
    /\ ay' = IF out = "rejected" THEN [ay EXCEPT !.pc = "done", !.result = "resolved"]
             ELSE IF out = "success" /\ named
             THEN GetLoopHead([ay EXCEPT !.deployments = @ \cup {ay.got}])
             ELSE GetLoopHead(ay)
    /\ UNCHANGED otherThanAy

\* Promise.allSettled over the kubectl wait commands
WaitSettle ==
    /\ ay.pc = "waiting"
    /\ ay' = [ay EXCEPT !.pc = "done", !.result = "resolved"]
    /\ UNCHANGED otherThanAy

ApplyNext ==
    \/ \E contextReady \in BOOLEAN : VerifyContextSettle(contextReady)
    \/ \E namespaceReady \in BOOLEAN : EnsureNamespaceSettle(namespaceReady)
    \/ \E exists \in BOOLEAN : ResolveSettle(exists)
    \/ \E out \in ShellOutcomes : ValidateSettle(out)
    \/ \E out \in ShellOutcomes : ApplySettle(out)
    \/ \E out \in ShellOutcomes, named \in BOOLEAN : GetSettle(out, named)
    \/ WaitSettle

-----------------------------------------------------------------------------
(* KubernetesManager.initialize: verifyContext and ensureNamespace, called  *)
(* by applyYaml and deleteYaml, several calls overlapping                   *)

otherThanKm == <<anaVars, engineVarsButUnits, dcall, bld, nsv, ld, lv, pat, ay, fe>>

ContextProbes == {"commandExists", "get-contexts", "use-context", "cluster-info"}
NamespaceProbes == {"get namespace", "create namespace", "wait namespace"}

\* a manager that forgets what it verified
Cached_never(flag) == FALSE

\* "if (this.contextAvailable) return true" and "if (this.namespaceReady)
\* return true"
Cached(flag) == flag

Issue(rec, command) == [rec EXCEPT !.pc = command, !.issued = @ \cup {command}]

NotReady(rec) == [rec EXCEPT !.pc = "done", !.result = "not ready"]

\* ensureNamespace up to its first await, or its return on the cached flag
EnterEnsureNamespace(rec, namespaceReady) ==
    LET entered == [rec EXCEPT !.namespaceWasCached = namespaceReady]
    IN  IF Cached(namespaceReady)
        THEN [entered EXCEPT !.pc = "done", !.result = "ready"]
        ELSE Issue(entered, "get namespace")

\* verifyContext up to its first await, or its return on the cached flag
EnterVerifyContext(rec, contextAvailable, namespaceReady) ==
    LET entered == [rec EXCEPT !.contextWasCached = contextAvailable]
    IN  IF Cached(contextAvailable)
        THEN EnterEnsureNamespace(entered, namespaceReady)
        ELSE Issue(entered, "commandExists")

\* initialize() is called
ManagerInitialize(k) ==
    /\ km.calls[k].pc = "idle"
    /\ \A j \in ManagerCalls : j < k => km.calls[j].pc # "idle"
    /\ km' = [km EXCEPT !.calls[k] =
                 EnterVerifyContext(@, km.contextAvailable, km.namespaceReady)]
    /\ UNCHANGED otherThanKm

\* one command of verifyContext settles: a failure or a rejection returns
\* false; after cluster-info the flag is set and ensureNamespace is entered
ContextProbeSettle(k, out) ==
    /\ km.calls[k].pc \in ContextProbes
    /\ LET rec == km.calls[k]
       IN  km' = IF out # "success" THEN [km EXCEPT !.calls[k] = NotReady(rec)]
                 ELSE IF rec.pc = "commandExists"
                 THEN [km EXCEPT !.calls[k] = Issue(rec, "get-contexts")]
                 ELSE IF rec.pc = "get-contexts"
                 THEN [km EXCEPT !.calls[k] = Issue(rec, "use-context")]
                 ELSE IF rec.pc = "use-context"
                 THEN [km EXCEPT !.calls[k] = Issue(rec, "cluster-info")]
                 ELSE [km EXCEPT !.contextAvailable = TRUE,
                                 !.calls[k] = EnterEnsureNamespace(
                                     [rec EXCEPT !.connected = TRUE], km.namespaceReady)]
    /\ UNCHANGED otherThanKm

\* one command of ensureNamespace settles: an existing namespace sets the
\* flag; a missing one is created and waited for, and the flag is set whether
\* or not the wait succeeded; a rejection returns false
NamespaceProbeSettle(k, out) ==
    /\ km.calls[k].pc \in NamespaceProbes
    /\ LET rec == km.calls[k]
           ready == [rec EXCEPT !.pc = "done", !.result = "ready", !.ensured = TRUE]
       IN  km' = IF out = "rejected" THEN [km EXCEPT !.calls[k] = NotReady(rec)]
                 ELSE IF rec.pc = "get namespace"
                 THEN IF out = "success"
                      THEN [km EXCEPT !.namespaceReady = TRUE, !.calls[k] = ready]
                      ELSE [km EXCEPT !.calls[k] = Issue(rec, "create namespace")]
                 ELSE IF rec.pc = "create namespace"
                 THEN IF out = "success"
                      THEN [km EXCEPT !.calls[k] = Issue(rec, "wait namespace")]
                      ELSE [km EXCEPT !.calls[k] = NotReady(rec)]
                 ELSE [km EXCEPT !.namespaceReady = TRUE, !.calls[k] = ready]
    /\ UNCHANGED otherThanKm

ManagerNext ==
    \/ \E k \in ManagerCalls : ManagerInitialize(k)
    \/ \E k \in ManagerCalls, out \in ShellOutcomes : ContextProbeSettle(k, out)
    \/ \E k \in ManagerCalls, out \in ShellOutcomes : NamespaceProbeSettle(k, out)

-----------------------------------------------------------------------------
(* One live-update session: the watcher's "all" handler, handleFileChange,  *)
(* handleSyncStep, handleRunStep, and stopLiveUpdate                        *)

otherThanFe == <<anaVars, engineVarsButUnits, dcall, bld, nsv, ld, lv, pat, ay, km>>

\* hot.live_update of the build: a sync step, then a run step
SessionSteps == <<"sync", "run">>

\* kubectl cp for a sync step, kubectl exec for a run step
CommandOf(step) == IF SessionSteps[step] = "sync" THEN "cp" ELSE "exec"

\* a handler that lets every event through
Dropped_never(isActive) == FALSE

\* "if (!session.isActive) return" at the head of the handler
Dropped(isActive) == ~isActive

\* a loop that ends with the first step whose command did not succeed
AfterStep_stopsOnFailure(rec, out) ==
    IF out = "success" /\ rec.step < Len(SessionSteps)
    THEN [rec EXCEPT !.pc = "step", !.step = @ + 1]
    ELSE [rec EXCEPT !.pc = "done"]

\* the for loop of handleFileChange after a step: handleSyncStep and
\* handleRunStep catch every error, so the loop goes on to the next step
AfterStep(rec, out) ==
    IF rec.step < Len(SessionSteps)
    THEN [rec EXCEPT !.pc = "step", !.step = @ + 1]
    ELSE [rec EXCEPT !.pc = "done"]

\* the watcher emits an event: the handler drops it on an inactive session,
\* else handleFileChange starts with the first step
FileEvent(e) ==
    /\ fe.events[e].pc = "idle"
    /\ \A d \in Events : d < e => fe.events[d].pc # "idle"
    /\ fe' = [fe EXCEPT !.events[e] =
                 IF Dropped(fe.isActive)
                 THEN [@ EXCEPT !.pc = "dropped", !.activeAtDelivery = fe.isActive]
                 ELSE [@ EXCEPT !.pc = "step", !.step = 1, !.activeAtDelivery = fe.isActive]]
    /\ UNCHANGED otherThanFe

\* handleSyncStep / handleRunStep up to the await of the command: a step whose
\* pattern does not match the path is passed over
StepBegin(e, matches) ==
    /\ fe.events[e].pc = "step"
    /\ LET rec == [fe.events[e] EXCEPT !.considered = @ \cup {fe.events[e].step}]
       IN  fe' = IF matches
                 THEN [fe EXCEPT !.events[e] = [rec EXCEPT !.pc = "running"],
                                 !.log = Append(@, <<e, rec.step, CommandOf(rec.step)>>)]
                 ELSE [fe EXCEPT !.events[e] = AfterStep(rec, "success")]
    /\ UNCHANGED otherThanFe

\* kubectl cp / kubectl exec settles
StepSettle(e, out) ==
    /\ fe.events[e].pc = "running"
    /\ LET rec == [fe.events[e] EXCEPT
                      !.failed = @ \/ out # "success"]
       IN  fe' = [fe EXCEPT !.events[e] = AfterStep(rec, out)]
    /\ UNCHANGED otherThanFe

\* stopLiveUpdate(imageName) up to the await of watcher.close()
SessionStop ==
    /\ fe.stop = "none"
    /\ fe.stored
    /\ fe' = [fe EXCEPT !.stop = "closing"]
    /\ UNCHANGED otherThanFe

\* watcher.close() settles: the session is made inactive and removed, and
\* stopLiveUpdate returns; a failed close rejects
SessionCloseSettle(ok) ==
    /\ fe.stop = "closing"
    /\ fe' = IF ok
             THEN [fe EXCEPT !.stop = "returned", !.isActive = FALSE, !.stored = FALSE,
                             !.log = Append(@, <<0, 0, "stopped">>)]
             ELSE [fe EXCEPT !.stop = "rejected"]
    /\ UNCHANGED otherThanFe

EventsNext ==
    \/ \E e \in Events : FileEvent(e)
    \/ \E e \in Events, matches \in BOOLEAN : StepBegin(e, matches)
    \/ \E e \in Events, out \in ShellOutcomes : StepSettle(e, out)
    \/ SessionStop
    \/ \E ok \in BOOLEAN : SessionCloseSettle(ok)

-----------------------------------------------------------------------------
(* TiltEngine.down, one action per stretch between two awaits *)

Downs == 1..MaxDowns

\* a down() invocation: where it stands, the sessions that existed when it was
\* called, the LiveUpdateManager it stops them on, the awaited operations
\* still pending, the side effects issued so far and whether one has failed
IdleDown ==
    [pc |-> "idle", atCall |-> {}, lum |-> 0,
     closing |-> {}, stopped |-> {}, stopFailed |-> {},
     deleting |-> {}, deleteIssued |-> {}, deleteFailed |-> FALSE,
     removing |-> {}, removeIssued |-> {}, removeFailed |-> FALSE]

DownIdle == dcall = [d \in Downs |-> IdleDown]

UnitsIdle == DownIdle /\ BuildIdle /\ NsIdle /\ LoadIdle /\ RestIdle

\* stopAllLiveUpdates up to its await: stopLiveUpdate of every session, each
\* waiting for its watcher to close; skipped when the engine is not in dev mode
StopAllLiveUpdates(rec, devMode, live, gen) ==
    IF devMode /\ live # {}
    THEN [rec EXCEPT !.pc = "stopping", !.closing = live, !.lum = gen]
    ELSE [rec EXCEPT !.pc = "k8s"]

\* down() up to its first await
DownEnter(d) ==
    /\ dcall[d].pc = "idle"
    /\ \A e \in Downs : e < d => dcall[e].pc # "idle"
    /\ IF hasManagers
       THEN dcall' = [dcall EXCEPT ![d] =
                StopAllLiveUpdates([@ EXCEPT !.atCall = sessions], isDevMode, sessions, lum)]
       ELSE dcall' = [dcall EXCEPT ![d].pc = "init"]
    /\ UNCHANGED <<anaVars, aloneVars, liveVars, storeVars, isRunning, isDevMode, call, k8sMgr,
                   dockerMgr, env, inflight, ops, lastPass, passes>>

\* initializeManagers in down(), then the dev-mode test
DownInitializeManagers(d) ==
    /\ dcall[d].pc = "init"
    /\ state' = EnsuredState
    /\ initialState' = EnsuredInitial
    /\ initialized' = TRUE
    /\ k8sMgr' = FreshK8sManager
    /\ dockerMgr' = FreshDockerManager
    /\ hasManagers' = TRUE
    /\ lum' = lum + 1
    /\ sessions' = {}
    /\ dcall' = [dcall EXCEPT ![d] = StopAllLiveUpdates(@, isDevMode, {}, lum + 1)]
    /\ UNCHANGED <<anaVars, aloneVars, disk, isRunning, isDevMode, call, env, inflight, ops,
                   lastPass, passes>>

\* Promise.all over the stopLiveUpdate calls: rejects with the first failure
\* (down() then rejects), resolves when every watcher has closed
StopSettled(rec, img, ok) ==
    LET left == rec.closing \ {img}
        r == [rec EXCEPT !.closing = left,
                         !.stopped = IF ok THEN @ \cup {img} ELSE @,
                         !.stopFailed = IF ok THEN @ ELSE @ \cup {img}]
    IN  IF rec.pc # "stopping" THEN r
        ELSE IF ~ok THEN [r EXCEPT !.pc = "threw"]
        ELSE IF left = {} THEN [r EXCEPT !.pc = "k8s"]
        ELSE r

\* one watcher.close() settles; after a close stopLiveUpdate removes the
\* session from the map of the manager it was called on
WatcherClose(d, img, ok) ==
    /\ img \in dcall[d].closing
    /\ dcall' = [dcall EXCEPT ![d] = StopSettled(@, img, ok)]
    /\ sessions' = IF ok /\ dcall[d].lum = lum THEN sessions \ {img} ELSE sessions
    /\ UNCHANGED <<anaVars, aloneVars, hasManagers, lum, storeVars, isRunning, isDevMode, call, k8sMgr,
                   dockerMgr, env, inflight, ops, lastPass, passes>>

\* the end of down(): the engine is idle again
DownFinish(rec) == [rec EXCEPT !.pc = "done"]

\* deleteYaml is issued for every registered manifest, then Promise.allSettled
DownK8s(d) ==
    /\ dcall[d].pc = "k8s"
    /\ LET yamls == DOMAIN EnsuredState.k8s_yaml
       IN  dcall' = [dcall EXCEPT ![d].pc = IF yamls = {} THEN "docker" ELSE "k8s_wait",
                                  ![d].deleting = yamls,
                                  ![d].deleteIssued = yamls]
    /\ UNCHANGED <<anaVars, aloneVars, liveVars, storeVars, isRunning, isDevMode, call, k8sMgr,
                   dockerMgr, env, inflight, ops, lastPass, passes>>

\* a settle in which a failed deleteYaml ends down()
DeleteSettle_aborts(d, yaml, ok) ==
    /\ dcall[d].pc = "k8s_wait"
    /\ yaml \in dcall[d].deleting
    /\ dcall' = [dcall EXCEPT ![d].deleting = @ \ {yaml},
                              ![d].deleteFailed = @ \/ ~ok,
                              ![d].pc = IF ~ok THEN "threw"
                                        ELSE IF dcall[d].deleting = {yaml} THEN "docker" ELSE @]
    /\ UNCHANGED <<anaVars, aloneVars, liveVars, storeVars, isRunning, isDevMode, call, k8sMgr,
                   dockerMgr, env, inflight, ops, lastPass, passes>>

\* one deleteYaml settles; its failure is caught and logged
DeleteSettle(d, yaml, ok) ==
    /\ dcall[d].pc = "k8s_wait"
    /\ yaml \in dcall[d].deleting
    /\ dcall' = [dcall EXCEPT ![d].deleting = @ \ {yaml},
                              ![d].deleteFailed = @ \/ ~ok,
                              ![d].pc = IF dcall[d].deleting = {yaml} THEN "docker" ELSE @]
    /\ UNCHANGED <<anaVars, aloneVars, liveVars, storeVars, isRunning, isDevMode, call, k8sMgr,
                   dockerMgr, env, inflight, ops, lastPass, passes>>

\* removeImage is issued for every registered build, then Promise.allSettled;
\* with nothing to remove down() ends here
DownDocker(d) ==
    /\ dcall[d].pc = "docker"
    /\ LET images == DOMAIN EnsuredState.docker_build
       IN  /\ dcall' = [dcall EXCEPT ![d] =
                  IF images = {} THEN DownFinish(@)
                  ELSE [@ EXCEPT !.pc = "docker_wait", !.removing = images,
                                 !.removeIssued = images]]
           /\ isRunning' = IF images = {} THEN FALSE ELSE isRunning
           /\ isDevMode' = IF images = {} THEN FALSE ELSE isDevMode
    /\ UNCHANGED <<anaVars, aloneVars, liveVars, storeVars, call, k8sMgr, dockerMgr, env, inflight,
                   ops, lastPass, passes>>

\* one removeImage settles; its failure is caught and logged; after the last
\* one down() resets isRunning and isDevMode and returns
RemoveSettle(d, img, ok) ==
    /\ dcall[d].pc = "docker_wait"
    /\ img \in dcall[d].removing
    /\ LET last == dcall[d].removing = {img}
           r == [dcall[d] EXCEPT !.removing = @ \ {img},
                                 !.removeFailed = @ \/ ~ok]
       IN  /\ dcall' = [dcall EXCEPT ![d] = IF last THEN DownFinish(r) ELSE r]
           /\ isRunning' = IF last THEN FALSE ELSE isRunning
           /\ isDevMode' = IF last THEN FALSE ELSE isDevMode
    /\ UNCHANGED <<anaVars, aloneVars, liveVars, storeVars, call, k8sMgr, dockerMgr, env, inflight,
                   ops, lastPass, passes>>

-----------------------------------------------------------------------------
(* StateAnalyzer applied to a pair of states *)

Analyze ==
    /\ ~anaOut.done
    /\ LET changes == analyzeChanges(anaOld, anaNew)
       IN  anaOut' = [done |-> TRUE, changes |-> changes,
                      docker |-> getDockerBuildChanges(changes),
                      k8s |-> getK8sYamlChanges(changes)]
    /\ UNCHANGED <<anaOld, anaNew, engineVars>>

-----------------------------------------------------------------------------
(* Specifications *)

\* a TiltConfig just constructed, without a state file
StoreFresh ==
    /\ state = DefaultState
    /\ initialState = DefaultState
    /\ initialized = FALSE
    /\ disk = NoFile

\* a TiltEngine just constructed
EngineFresh ==
    /\ isRunning = FALSE
    /\ isDevMode = FALSE
    /\ call = [c \in Calls |-> IdleCall]
    /\ k8sMgr = FreshK8sManager
    /\ dockerMgr = FreshDockerManager
    /\ inflight = {}
    /\ ops = [c \in Calls |-> NoOps]
    /\ lastPass = NoPass
    /\ passes = 0
    /\ hasManagers = FALSE
    /\ lum = 0
    /\ sessions = {}

EngineInit == StoreFresh /\ EngineFresh /\ UnitsIdle

\* the analyzer and the cluster are not part of the run
AnalyzerIdle ==
    /\ env = [nsExists |-> FALSE]
    /\ anaOld = DefaultState
    /\ anaNew = DefaultState
    /\ anaOut = AnaIdle

Init ==
    /\ EngineInit
    /\ env \in {[nsExists |-> b] : b \in BOOLEAN}
    /\ anaOld = DefaultState
    /\ anaNew = DefaultState
    /\ anaOut = AnaIdle

Next ==
    \/ \E tf \in Tiltfiles : LoadTiltfile(tf)
    \/ Restart
    \/ \E c \in Calls, dryRun \in BOOLEAN, devMode \in BOOLEAN : UpEnter(c, dryRun, devMode)
    \/ \E c \in Calls : InitializeManagers(c)
    \/ \E c \in Calls : PreflightK8s(c)
    \/ \E c \in Calls : PreflightDocker(c)
    \/ \E c \in Calls : Diff(c)
    \/ \E c \in Calls : DockerBegin(c)
    \/ \E c \in Calls : DockerRemove(c)
    \/ \E c \in Calls : DockerBuildAll(c)
    \/ \E img \in Images, c \in Calls, ok \in BOOLEAN : BuildSettle(img, c, ok)
    \/ \E c \in Calls : K8sBegin(c)
    \/ \E c \in Calls : K8sDelete(c)
    \/ \E c \in Calls : K8sApplyBegin(c)
    \/ \E c \in Calls, ok \in BOOLEAN : K8sApply(c, ok)
    \/ \E c \in Calls : SetupLiveUpdates(c)
    \/ \E c \in Calls : Persist(c)
    \/ \E c \in Calls : Reset(c)

\* the engine: Tiltfile loads, process restarts and up() invocations
Spec == Init /\ [][Next]_vars

\* the store of a process whose Tiltfile has been loaded: the state file it
\* found and the registrations made, without a file and with the file a
\* previous process persisted for a larger Tiltfile
LoadedStores ==
    {[file |-> NoFile,
      tf |-> Tiltfile({A1, W1}, {"k8s/a.yaml", "k8s/b.yaml"})],
     [file |-> JsonFile(jsonStringify(
                    [DefaultState EXCEPT
                        !.docker_build = Tiltfile({A1, W1}, {}).docker_build,
                        !.k8s_yaml = Tiltfile({}, {"k8s/a.yaml", "k8s/b.yaml"}).k8s_yaml])),
      tf |-> Tiltfile({A1}, {"k8s/a.yaml"})]}

UpInit ==
    /\ \E ls \in LoadedStores :
          /\ disk = ls.file
          /\ initialState = StoreInit(DefaultState, ls.file)
          /\ state = [StoreInit(DefaultState, ls.file) EXCEPT
                         !.docker_build = ls.tf.docker_build,
                         !.k8s_yaml = ls.tf.k8s_yaml]
    /\ initialized = TRUE
    /\ isRunning = FALSE
    /\ isDevMode = FALSE
    /\ call = [c \in Calls |-> IdleCall]
    /\ k8sMgr = FreshK8sManager
    /\ dockerMgr = FreshDockerManager
    /\ inflight = {}
    /\ ops = [c \in Calls |-> NoOps]
    /\ lastPass = NoPass
    /\ passes = 0
    /\ hasManagers = FALSE
    /\ lum = 0
    /\ sessions = {}
    /\ UnitsIdle
    /\ env \in {[nsExists |-> b] : b \in BOOLEAN}
    /\ anaOld = DefaultState
    /\ anaNew = DefaultState
    /\ anaOut = AnaIdle

UpNext ==
    \/ \E c \in Calls, dryRun \in BOOLEAN, devMode \in BOOLEAN : UpEnter(c, dryRun, devMode)
    \/ \E c \in Calls : InitializeManagers(c)
    \/ \E c \in Calls : PreflightK8s(c)
    \/ \E c \in Calls : PreflightDocker(c)
    \/ \E c \in Calls : Diff(c)
    \/ \E c \in Calls : DockerBegin(c)
    \/ \E c \in Calls : DockerRemove(c)
    \/ \E c \in Calls : DockerBuildAll(c)
    \/ \E img \in Images, c \in Calls, ok \in BOOLEAN : BuildSettle(img, c, ok)
    \/ \E c \in Calls : K8sBegin(c)
    \/ \E c \in Calls : K8sDelete(c)
    \/ \E c \in Calls : K8sApplyBegin(c)
    \/ \E c \in Calls, ok \in BOOLEAN : K8sApply(c, ok)
    \/ \E c \in Calls : SetupLiveUpdates(c)
    \/ \E c \in Calls : Persist(c)
    \/ \E c \in Calls : Reset(c)

\* one process after loadTiltfile: up() invocations on one engine, in any
\* interleaving
SpecUp == UpInit /\ [][UpNext]_vars

\* the engine when down() is called: in a new process (`down` command) with
\* the state file of an earlier pass, or in the process of a returned up()
\* pass, in dev mode with the sessions it started or not in dev mode
TornDown == Tiltfile({A3, W1}, {"k8s/a.yaml", "k8s/b.yaml"})

TornDownState ==
    [DefaultState EXCEPT !.docker_build = TornDown.docker_build,
                         !.k8s_yaml = TornDown.k8s_yaml]

DownStarts ==
    {[managers |-> FALSE, devMode |-> FALSE, sessions |-> {}]}
    \cup {[managers |-> TRUE, devMode |-> FALSE, sessions |-> {}]}
    \cup {[managers |-> TRUE, devMode |-> TRUE, sessions |-> ss] :
             ss \in SUBSET LiveUpdateBuilds(TornDownState)}

DownInit ==
    /\ disk = JsonFile(jsonStringify(TornDownState))
    /\ \E st \in DownStarts :
          /\ hasManagers = st.managers
          /\ lum = IF st.managers THEN 1 ELSE 0
          /\ initialized = st.managers
          /\ state = IF st.managers THEN TornDownState ELSE DefaultState
          /\ initialState = IF st.managers THEN TornDownState ELSE DefaultState
          /\ isRunning = st.devMode
          /\ isDevMode = st.devMode
          /\ sessions = st.sessions
    /\ call = [c \in Calls |-> IdleCall]
    /\ k8sMgr = FreshK8sManager
    /\ dockerMgr = FreshDockerManager
    /\ inflight = {}
    /\ ops = [c \in Calls |-> NoOps]
    /\ lastPass = NoPass
    /\ passes = 0
    /\ UnitsIdle
    /\ env = [nsExists |-> TRUE]
    /\ anaOld = DefaultState
    /\ anaNew = DefaultState
    /\ anaOut = AnaIdle

DownNext ==
    \/ \E d \in Downs : DownEnter(d)
    \/ \E d \in Downs : DownInitializeManagers(d)
    \/ \E d \in Downs, img \in Images, ok \in BOOLEAN : WatcherClose(d, img, ok)
    \/ \E d \in Downs : DownK8s(d)
    \/ \E d \in Downs, yaml \in Yamls, ok \in BOOLEAN : DeleteSettle(d, yaml, ok)
    \/ \E d \in Downs : DownDocker(d)
    \/ \E d \in Downs, img \in Images, ok \in BOOLEAN : RemoveSettle(d, img, ok)

\* down() invocations on one engine, in any interleaving
SpecDown == DownInit /\ [][DownNext]_vars

\* one process in which an up() pass and down() invocations overlap: the
\* Tiltfile registers web (with live update) and k8s/b.yaml, the state file of
\* an earlier pass holds app and k8s/a.yaml
UpDownInit ==
    /\ disk = JsonFile(jsonStringify(
                   [DefaultState EXCEPT
                       !.docker_build = Tiltfile({A1}, {}).docker_build,
                       !.k8s_yaml = Tiltfile({}, {"k8s/a.yaml"}).k8s_yaml]))
    /\ initialState = StoreInit(DefaultState, disk)
    /\ state = [StoreInit(DefaultState, disk) EXCEPT
                   !.docker_build = Tiltfile({W1}, {}).docker_build,
                   !.k8s_yaml = Tiltfile({}, {"k8s/b.yaml"}).k8s_yaml]
    /\ initialized = TRUE
    /\ isRunning = FALSE
    /\ isDevMode = FALSE
    /\ call = [c \in Calls |-> IdleCall]
    /\ k8sMgr = FreshK8sManager
    /\ dockerMgr = FreshDockerManager
    /\ inflight = {}
    /\ ops = [c \in Calls |-> NoOps]
    /\ lastPass = NoPass
    /\ passes = 0
    /\ hasManagers = FALSE
    /\ lum = 0
    /\ sessions = {}
    /\ UnitsIdle
    /\ env = [nsExists |-> TRUE]
    /\ anaOld = DefaultState
    /\ anaNew = DefaultState
    /\ anaOut = AnaIdle

UpDownNext ==
    \/ \E devMode \in BOOLEAN : UpEnter(1, FALSE, devMode)
    \/ InitializeManagers(1)
    \/ PreflightK8s(1)
    \/ PreflightDocker(1)
    \/ Diff(1)
    \/ DockerBegin(1)
    \/ DockerRemove(1)
    \/ DockerBuildAll(1)
    \/ \E img \in Images, ok \in BOOLEAN : BuildSettle(img, 1, ok)
    \/ K8sBegin(1)
    \/ K8sDelete(1)
    \/ K8sApplyBegin(1)
    \/ \E ok \in BOOLEAN : K8sApply(1, ok)
    \/ SetupLiveUpdates(1)
    \/ Persist(1)
    \/ Reset(1)
    \/ DownNext

\* one up() pass and down() invocations on one engine, in any interleaving
SpecUpDown == UpDownInit /\ [][UpDownNext]_vars

BuildInit ==
    /\ StoreFresh /\ EngineFresh /\ AnalyzerIdle
    /\ DownIdle /\ NsIdle /\ LoadIdle /\ RestIdle
    /\ bld \in BuildCalls

\* DockerManager.buildImage and pushImageWithRetry, one call with every
\* outcome of the commands it runs
SpecBuild == BuildInit /\ [][BuildNext]_vars

NsInit ==
    /\ EngineFresh /\ AnalyzerIdle
    /\ DownIdle /\ BuildIdle /\ LoadIdle /\ RestIdle
    /\ nsv \in {[IdleNs EXCEPT !.input = str] : str \in NsInputs}
    /\ state = DefaultState
    /\ initialState = DefaultState
    /\ initialized = FALSE
    /\ disk \in {NoFile, JsonFile([DefaultState EXCEPT !.k8s.namespace = nsv.input])}

\* normalizeNamespace on every bounded string, directly and through the store
SpecNs == NsInit /\ [][NsNext]_vars

StoreUnitInit ==
    /\ EngineFresh /\ AnalyzerIdle
    /\ DownIdle /\ BuildIdle /\ NsIdle /\ LoadIdle /\ RestIdle
    /\ state = DefaultState
    /\ initialState = DefaultState
    /\ initialized = FALSE
    /\ disk \in StoreFiles

\* one TiltConfig under concurrent calls, then a new one over the file it wrote
SpecStore == StoreUnitInit /\ [][StoreNext]_vars

RebaseInit ==
    /\ EngineFresh /\ UnitsIdle
    /\ env = [nsExists |-> FALSE]
    /\ anaOld = DefaultState
    /\ anaNew = DefaultState
    /\ anaOut = AnaIdle
    /\ state = DefaultState
    /\ initialState = DefaultState
    /\ initialized = FALSE
    /\ disk \in {NoFile,
                 JsonFile(jsonStringify(
                     [DefaultState EXCEPT !.docker_build = Tiltfile({A1}, {}).docker_build]))}

\* one TiltConfig: registrations, setters, reset() and diffs in any order
SpecRebase == RebaseInit /\ [][RebaseNext]_vars

\* the Tiltfile of the up command: it registers the image "web", which no
\* persisted state of LazyInit holds
NewBuildTiltfile == Tiltfile({W1}, {"k8s/b.yaml"})

\* the registrations of NewBuildTiltfile are in the live state
TiltfileEvaluated == "web" \in DOMAIN state.docker_build

\* the up command: await loadTiltfile(); await tiltEngine.up(dryRun)
UpCommand(c, dryRun, devMode) == TiltfileEvaluated /\ UpEnter(c, dryRun, devMode)

\* a new process: nothing loaded, the state file absent or left by an earlier
\* run that knew the image "app" only
LazyInit ==
    /\ EngineFresh /\ UnitsIdle
    /\ state = DefaultState
    /\ initialState = DefaultState
    /\ initialized = FALSE
    /\ disk \in {NoFile,
                 JsonFile(jsonStringify(
                     [DefaultState EXCEPT !.docker_build = Tiltfile({A1}, {}).docker_build,
                                          !.k8s_yaml = Tiltfile({}, {"k8s/a.yaml"}).k8s_yaml]))}
    /\ env \in {[nsExists |-> b] : b \in BOOLEAN}
    /\ anaOld = DefaultState
    /\ anaNew = DefaultState
    /\ anaOut = AnaIdle

LazyNext ==
    \/ LoadTiltfile(NewBuildTiltfile)
    \/ LoadTiltfileUninitialized(NewBuildTiltfile)
    \/ \E c \in Calls, dryRun \in BOOLEAN, devMode \in BOOLEAN : UpCommand(c, dryRun, devMode)
    \/ \E c \in Calls : InitializeManagers(c)
    \/ \E c \in Calls : PreflightK8s(c)
    \/ \E c \in Calls : PreflightDocker(c)
    \/ \E c \in Calls : Diff(c)
    \/ \E c \in Calls : DockerBegin(c)
    \/ \E c \in Calls : DockerRemove(c)
    \/ \E c \in Calls : DockerBuildAll(c)
    \/ \E img \in Images, c \in Calls, ok \in BOOLEAN : BuildSettle(img, c, ok)
    \/ \E c \in Calls : K8sBegin(c)
    \/ \E c \in Calls : K8sDelete(c)
    \/ \E c \in Calls : K8sApplyBegin(c)
    \/ \E c \in Calls, ok \in BOOLEAN : K8sApply(c, ok)
    \/ \E c \in Calls : SetupLiveUpdates(c)
    \/ \E c \in Calls : Persist(c)
    \/ \E c \in Calls : Reset(c)

\* the up command of a new process, with either loadTiltfile
SpecLazy == LazyInit /\ [][LazyNext]_vars

LiveInit ==
    /\ StoreFresh /\ EngineFresh /\ AnalyzerIdle
    /\ DownIdle /\ BuildIdle /\ NsIdle /\ LoadIdle /\ PatternIdle /\ ApplyIdle
    /\ ManagerIdle /\ EventsIdle
    /\ lv = IdleLive

\* one LiveUpdateManager: calls made one after the other, overlapping in time
SpecLive == LiveInit /\ [][LiveNext]_vars

PatternInit ==
    /\ StoreFresh /\ EngineFresh /\ AnalyzerIdle
    /\ DownIdle /\ BuildIdle /\ NsIdle /\ LoadIdle /\ LiveIdle /\ ApplyIdle
    /\ ManagerIdle /\ EventsIdle
    /\ pat \in {[IdlePattern EXCEPT !.pc = "called", !.filePath = f, !.pattern = p]
                   : f \in Paths, p \in Patterns}

\* matchesPattern on every bounded path and pattern
SpecPattern == PatternInit /\ [][MatchesPattern]_vars

ApplyInit ==
    /\ StoreFresh /\ EngineFresh /\ AnalyzerIdle
    /\ DownIdle /\ BuildIdle /\ NsIdle /\ LoadIdle /\ LiveIdle /\ PatternIdle
    /\ ManagerIdle /\ EventsIdle
    /\ ay \in {[IdleApply EXCEPT !.pc = "verifyContext", !.files = n] : n \in 0..MaxYamlFiles}

\* one applyYaml call on a path that resolves to up to MaxYamlFiles files
SpecApply == ApplyInit /\ [][ApplyNext]_vars

ManagerInit ==
    /\ StoreFresh /\ EngineFresh /\ AnalyzerIdle
    /\ DownIdle /\ BuildIdle /\ NsIdle /\ LoadIdle /\ LiveIdle /\ PatternIdle /\ ApplyIdle
    /\ EventsIdle
    /\ km = IdleManager

\* one KubernetesManager: initialize() calls that overlap in any way
SpecManager == ManagerInit /\ [][ManagerNext]_vars

\* a session that startLiveUpdate has just stored: active, its watcher open
EventsInit ==
    /\ StoreFresh /\ EngineFresh /\ AnalyzerIdle
    /\ DownIdle /\ BuildIdle /\ NsIdle /\ LoadIdle /\ LiveIdle /\ PatternIdle /\ ApplyIdle
    /\ ManagerIdle
    /\ fe = [IdleEvents EXCEPT !.isActive = TRUE, !.stored = TRUE]

\* one live-update session: file-change events and a stopLiveUpdate, in any
\* interleaving
SpecEvents == EventsInit /\ [][EventsNext]_vars

DiffInit ==
    /\ EngineInit
    /\ env = [nsExists |-> FALSE]
    /\ anaOld \in AnaStates
    /\ anaNew \in AnaStates
    /\ anaOut = AnaIdle

DiffNext == Analyze

\* StateAnalyzer on every pair of bounded states
SpecDiff == DiffInit /\ [][DiffNext]_vars

-----------------------------------------------------------------------------
(* Claims about StateAnalyzer, checked under SpecDiff *)

KeysOnlyIn(a, b) == DOMAIN a \ DOMAIN b
KeysInBoth(a, b) == DOMAIN a \cap DOMAIN b

\* the positions of a projection list that hold the spec registered under key k
BuildEntries(list, k) == {i \in 1..Len(list) : list[i].imageName = k}
YamlEntries(list, k) == {i \in 1..Len(list) : list[i].yamlPath = k}
NameEntries(list, k) == {i \in 1..Len(list) : list[i] = k}

\* the change records at or below <<collection, k>>
RecordsUnder(changes, collection, k) ==
    {i \in 1..Len(changes) :
        /\ Len(changes[i].path) >= 2
        /\ changes[i].path[1] = collection
        /\ changes[i].path[2] = k}

\* C1: a key present in both states with unequal values has its new spec
\* exactly once in the modified list of its collection's projection.
C1_ModifiedListsNewSpecOnce ==
    anaOut.done =>
        /\ \A k \in KeysInBoth(anaOld.docker_build, anaNew.docker_build) :
              anaOld.docker_build[k] # anaNew.docker_build[k] =>
                  /\ Cardinality(BuildEntries(anaOut.docker.modified, k)) = 1
                  /\ \A i \in BuildEntries(anaOut.docker.modified, k) :
                        anaOut.docker.modified[i] = anaNew.docker_build[k]
        /\ \A k \in KeysInBoth(anaOld.k8s_yaml, anaNew.k8s_yaml) :
              anaOld.k8s_yaml[k] # anaNew.k8s_yaml[k] =>
                  Cardinality(YamlEntries(anaOut.k8s.modified, k)) = 1

\* C2: a key only in the new state is exactly once in added (with its new
\* spec), a key only in the old state is exactly once in removed, and a key
\* in both with equal values has no change record at all; in both collections.
C2_AddedRemovedComplementary ==
    anaOut.done =>
        /\ \A k \in KeysOnlyIn(anaNew.docker_build, anaOld.docker_build) :
              /\ Cardinality(BuildEntries(anaOut.docker.added, k)) = 1
              /\ \A i \in BuildEntries(anaOut.docker.added, k) :
                    anaOut.docker.added[i] = anaNew.docker_build[k]
        /\ \A k \in KeysOnlyIn(anaOld.docker_build, anaNew.docker_build) :
              Cardinality(NameEntries(anaOut.docker.removed, k)) = 1
        /\ \A k \in KeysInBoth(anaOld.docker_build, anaNew.docker_build) :
              anaOld.docker_build[k] = anaNew.docker_build[k] =>
                  RecordsUnder(anaOut.changes, "docker_build", k) = {}
        /\ \A k \in KeysOnlyIn(anaNew.k8s_yaml, anaOld.k8s_yaml) :
              /\ Cardinality(YamlEntries(anaOut.k8s.added, k)) = 1
              /\ \A i \in YamlEntries(anaOut.k8s.added, k) :
                    anaOut.k8s.added[i] = anaNew.k8s_yaml[k]
        /\ \A k \in KeysOnlyIn(anaOld.k8s_yaml, anaNew.k8s_yaml) :
              Cardinality(NameEntries(anaOut.k8s.removed, k)) = 1
        /\ \A k \in KeysInBoth(anaOld.k8s_yaml, anaNew.k8s_yaml) :
              anaOld.k8s_yaml[k] = anaNew.k8s_yaml[k] =>
                  RecordsUnder(anaOut.changes, "k8s_yaml", k) = {}

\* a diff with an added, a removed and an unchanged key in each collection's
\* reach: one image only old, one only new, one manifest only old, one only
\* new, and the result computed
C2_Witness ==
    /\ anaOut.done
    /\ DOMAIN anaOld.docker_build = {"app"}
    /\ DOMAIN anaNew.docker_build = {"web"}
    /\ DOMAIN anaOld.k8s_yaml = {"k8s/a.yaml"}
    /\ DOMAIN anaNew.k8s_yaml = {"k8s/a.yaml", "k8s/b.yaml"}
    /\ Len(anaOut.docker.added) = 1
    /\ Len(anaOut.docker.removed) = 1
    /\ Len(anaOut.k8s.added) = 1

-----------------------------------------------------------------------------
(* Claims about TiltEngine.up, checked under Spec *)

\* where an up() invocation stands
PastDiff(c) ==
    \/ call[c].pc \in {"docker", "docker_remove", "docker_wait", "k8s", "k8s_delete",
                       "k8s_apply", "live", "persist", "rebase", "done"}
    \/ call[c].pc = "threw" /\ call[c].cause = "persist"

PastDockerPhase(c) ==
    /\ PastDiff(c)
    /\ ~call[c].dryRun
    /\ call[c].pc \notin {"docker", "docker_remove", "docker_wait"}

PastK8sPhase(c) ==
    /\ PastDockerPhase(c)
    /\ call[c].pc \notin {"k8s", "k8s_delete", "k8s_apply"}

Returned(c) == call[c].pc = "done" \/ call[c].pc = "threw"

NoResourceOps(op) ==
    /\ op.removed = {} /\ op.started = {} /\ op.built = {} /\ op.buildFailed = {}
    /\ op.deleted = {} /\ op.applied = {} /\ op.applyFailed = {}

SameRegistrations(c) ==
    /\ call[c].prev.docker_build = call[c].newState.docker_build
    /\ call[c].prev.k8s_yaml = call[c].newState.k8s_yaml

\* C3: up(dryRun = true) returns without side effects: no build, removal,
\* apply or delete, no namespace creation, no writeToDisk and no reset.
C3_DryRunHasNoSideEffects ==
    \A c \in Calls :
        call[c].pc = "done" /\ call[c].dryRun => ops[c] = NoOps

\* C4: after a pass in which both categories succeeded and the state was
\* written and rebased, a following pass with identical registrations computes
\* an empty diff and performs no build, removal, apply or delete.
C4_SecondPassIsEmpty ==
    \A c \in Calls :
        /\ PastDiff(c)
        /\ call[c].prev.kind = "applied"
        /\ call[c].prev.dockerSuccess /\ call[c].prev.k8sSuccess
        /\ call[c].prev.persisted
        /\ SameRegistrations(c)
        => /\ Len(analyzeChanges(call[c].oldState, call[c].newState)) = 0
           /\ NoResourceOps(ops[c])

\* C5: within one pass every image of added+modified is built although a
\* sibling build failed, and every manifest spec of added+modified is
\* attempted although a sibling apply failed.
C5_SiblingsAreNotAborted ==
    \A c \in Calls :
        /\ PastDockerPhase(c) => ops[c].started = Range(ImagesToBuild(c))
        /\ PastK8sPhase(c) =>
              Range(YamlToApply(c)) \subseteq ops[c].applied \cup ops[c].applyFailed

\* C6: after a pass in which exactly one category failed, every resource whose
\* build or apply failed is added or modified in the diff of the next pass run
\* with unchanged registrations.
C6_FailedResourcesAreRetried ==
    \A c \in Calls :
        /\ PastDiff(c)
        /\ call[c].prev.kind = "applied"
        /\ call[c].prev.dockerSuccess # call[c].prev.k8sSuccess
        /\ SameRegistrations(c)
        => /\ call[c].prev.failedBuilds \subseteq Range(ImagesToBuild(c))
           /\ call[c].prev.failedApplies \subseteq Range(YamlToApply(c))

\* the docker phase of a pass ends in the k8s phase and nowhere else
DockerPhaseLeadsToK8s ==
    \A c \in Calls :
        /\ call[c].pc \in {"docker", "docker_remove", "docker_wait"}
        /\ call'[c].pc \notin {"docker", "docker_remove", "docker_wait"}
        => call'[c].pc = "k8s"

FlagsFollowTheirCategory ==
    \A c \in Calls :
        /\ PastDockerPhase(c) => (call[c].dockerSuccess <=> ops[c].buildFailed = {})
        /\ PastK8sPhase(c) => (call[c].k8sSuccess <=> ops[c].applyFailed = {})
        /\ call[c].pc = "threw" =>
              \/ call[c].cause = "preflight" /\ NoResourceOps(ops[c])
              \/ call[c].cause = "persist" /\ ops[c].wrote = "failed"

\* C7: applyK8sChanges is attempted whether applyDockerChanges succeeded or
\* threw, each outcome is recorded in its own success flag, and a docker
\* failure alone never makes up() throw.
C7_CategoriesAreIndependent ==
    []FlagsFollowTheirCategory /\ [][DockerPhaseLeadsToK8s]_vars

\* a returned pass whose docker category failed and whose k8s category was
\* applied and succeeded
C7_Witness ==
    \E c \in Calls :
        /\ call[c].pc = "done"
        /\ ~call[c].dockerSuccess /\ ops[c].buildFailed # {}
        /\ call[c].k8sSuccess /\ ops[c].applied # {}

\* C8: in a pass that is no dry run, writeToDisk and reset are both executed
\* if and only if dockerSuccess or k8sSuccess is true; when both categories
\* failed, nothing is written and the baseline is not reset.
C8_PersistIffOneSucceeded ==
    \A c \in Calls :
        PastK8sPhase(c) /\ Returned(c) =>
            /\ (ops[c].wrote # "no") <=> ShouldSave(call[c])
            /\ ops[c].rebased <=> ShouldSave(call[c])

\* C9: when preflight fails, up() throws and no side effect has begun: no
\* namespace creation, no build or removal, no apply or delete, no persist
\* and no rebase.
C9_PreflightFailsBeforeSideEffects ==
    \A c \in Calls :
        call[c].pc = "threw" /\ call[c].cause = "preflight" => ops[c] = NoOps

AtMostOnePastGuard ==
    \A c, d \in Calls : PastGuard(c) /\ PastGuard(d) => c = d

\* an up() that finds the engine running becomes a no-op and changes nothing
RunningMeansNoOp ==
    \A c \in Calls :
        call[c].pc = "idle" /\ call'[c].pc # "idle" /\ isRunning =>
            /\ call'[c].pc = "noop"
            /\ ops'[c] = NoOps
            /\ UNCHANGED <<storeVars, isRunning, isDevMode, k8sMgr, dockerMgr, env, inflight>>

\* C10: under any interleaving of up() calls on one engine at most one call is
\* past the isRunning guard, and an up() invoked while the engine is running
\* returns as a no-op without preflight, diff, build, apply, persist or rebase.
C10_OnePassAtATime ==
    []AtMostOnePastGuard /\ [][RunningMeansNoOp]_vars

\* one call is in the middle of its pass and another has returned as a no-op
C10_Witness ==
    \E c, d \in Calls :
        /\ call[c].pc \in {"docker_wait", "k8s_apply"}
        /\ call[d].pc = "noop"

-----------------------------------------------------------------------------
(* Claims about TiltEngine.down, checked under SpecDown and SpecUpDown *)

\* C11: down() never propagates a failure: whatever fails among stopping a
\* live session, deleting a manifest and removing an image, the promise
\* returned by down() does not reject.
C11_DownNeverRejects ==
    \A d \in Downs : dcall[d].pc # "threw"

\* C12: if deleting a registered manifest fails, the deletion of every
\* registered manifest and the removal of every registered image is still
\* attempted, and when down() has finished the engine is idle (isRunning and
\* isDevMode false).
C12_DeleteFailureIsIsolated ==
    \A d \in Downs :
        /\ dcall[d].deleteFailed =>
              /\ dcall[d].pc \in {"k8s_wait", "docker", "docker_wait", "done"}
              /\ dcall[d].deleteIssued = DOMAIN state.k8s_yaml
              /\ dcall[d].deleting = {} => dcall[d].pc \in {"docker", "docker_wait", "done"}
              /\ dcall[d].pc \in {"docker_wait", "done"} =>
                    dcall[d].removeIssued = DOMAIN state.docker_build
        /\ dcall[d].pc = "done" => ~isRunning /\ ~isDevMode

\* a down() called on a running dev-mode engine has finished although one of
\* its manifest deletions failed
C12_Witness ==
    \E d \in Downs :
        /\ dcall[d].pc = "done"
        /\ dcall[d].deleteFailed
        /\ dcall[d].stopped # {}
        /\ dcall[d].removeIssued = {"app", "web"}

\* C13: down() is ordered: every live-update session that exists when down()
\* is called has been stopped before the first manifest delete is issued, and
\* every manifest delete has settled before the first image removal is issued.
C13_DownIsOrdered ==
    \A d \in Downs :
        /\ dcall[d].deleteIssued # {} => dcall[d].atCall \subseteq dcall[d].stopped
        /\ dcall[d].removeIssued # {} => dcall[d].deleting = {}

-----------------------------------------------------------------------------
(* Image build and push *)

Count(log, command) == Cardinality({i \in DOMAIN log : log[i] = command})

\* pushImageWithRetry left its loop and threw the final error
PushExhausted ==
    /\ ~bld.error.isNull
    /\ Head(bld.error.message) = "Failed to push after attempts: "

\* C14: when every push attempt fails, pushImageWithRetry makes exactly
\* maxRetries attempts, never two at a time and each one only after the
\* previous one has failed, and then throws an error that carries the message
\* of the last failure.
C14_ExactlyMaxRetriesAttempts ==
    /\ bld.pushing <= 1
    /\ Count(bld.log, "push") <= Len(bld.failures) + 1
    /\ PushExhausted =>
          /\ Count(bld.log, "push") = bld.maxRetries
          /\ Len(bld.failures) = bld.maxRetries
          /\ bld.pushing = 0
          /\ bld.maxRetries >= 1 =>
                bld.error.message =
                    <<"Failed to push after attempts: ">> \o bld.failures[Len(bld.failures)]

\* pushImageWithRetry on its own used its whole budget of at least two
\* attempts, and the last failure differs from the first
C14_Witness ==
    /\ bld.entry = "pushImageWithRetry"
    /\ bld.pc = "threw"
    /\ PushExhausted
    /\ bld.maxRetries = MaxRetries
    /\ Len(bld.failures) >= 2
    /\ bld.failures[1] # bld.failures[Len(bld.failures)]

\* C15: in buildImage docker tag is issued only after docker build was issued
\* and succeeded and docker images confirmed the image, and docker push is
\* issued only after docker tag was issued and succeeded.
C15_BuildThenTagThenPush ==
    bld.entry = "buildImage" =>
        \A i \in DOMAIN bld.log :
            /\ bld.log[i] = "tag" =>
                  /\ \E j \in 1..(i - 1) : bld.log[j] = "build"
                  /\ \E j \in 1..(i - 1) : bld.log[j] = "images"
                  /\ bld.buildResult.ok
                  /\ bld.imagesResult.ok /\ bld.imagesListed
            /\ bld.log[i] = "push" =>
                  /\ \E j \in 1..(i - 1) : bld.log[j] = "tag"
                  /\ bld.tagResult.ok

\* buildImage built, tagged and pushed an image, the push needing a retry
C15_Witness ==
    /\ bld.entry = "buildImage"
    /\ bld.pc = "done"
    /\ Count(bld.log, "build") = 1
    /\ Count(bld.log, "tag") = 1
    /\ Count(bld.log, "push") = 2

-----------------------------------------------------------------------------
(* Namespace normalization *)

\* C16: normalizeNamespace is idempotent: normalizing its result again gives
\* the same string, for every input string.
C16_NormalizeIsIdempotent == nsv.step = 2 => nsv.twice = nsv.once

\* non-empty, at most 63 characters of [a-z0-9-], alphanumeric at both ends
WellFormedNamespace(ns) ==
    /\ Len(ns) >= 1
    /\ Len(ns) <= NamespaceLimit
    /\ \A i \in 1..Len(ns) : IsAlnum(ns[i]) \/ ns[i] = "-"
    /\ IsAlnum(ns[1])
    /\ IsAlnum(ns[Len(ns)])

\* C17: the result of normalizeNamespace is non-empty, at most 63 characters
\* long, made of [a-z0-9-] and alphanumeric at both ends, for every input
\* string; so is state.k8s.namespace once init() or setK8sNamespace() has
\* completed.
C17_NamespaceIsWellFormed ==
    /\ nsv.step >= 1 => WellFormedNamespace(nsv.once)
    /\ nsv.step = 2 => WellFormedNamespace(nsv.twice)
    /\ (initialized \/ nsv.set = "done") => WellFormedNamespace(state.k8s.namespace)

\* a string longer than the limit went through setK8sNamespace on a store
\* loaded from a file, and was cut to the limit
C17_Witness ==
    /\ nsv.step >= 1
    /\ nsv.set = "done"
    /\ disk.exists
    /\ Len(nsv.input) > NamespaceLimit
    /\ state.k8s.namespace = nsv.once
    /\ Len(nsv.once) = NamespaceLimit

-----------------------------------------------------------------------------
(* Loading and persisting the store *)

\* C18: loading never fails, whatever the state file holds, and a file that
\* is not a complete state document leaves the constructed defaults in place.
C18_LoadIsNeverFatal ==
    \A l \in Loads :
        /\ ld.calls[l].pc # "threw"
        /\ (ld.calls[l].promise = "resolved" /\ ld.calls[l].loaded.fromFile) =>
              WellFormedDocument(ld.calls[l].loaded.doc)

\* C19: whatever calls overlap, the state file is read at most once per store
\* and the live state and baseline are assigned from a load at most once.
C19_LoadsOnce == ld.reads <= 1 /\ ld.assigns <= 1

\* two states have the same registry, context, namespace and entries; an
\* entry whose hot is undefined equals one without hot
SameDocument(s, t) == jsonStringify(s) = jsonStringify(t)

\* C20: a new store that loads the file writeToDisk() wrote gets a live state
\* (and baseline) equal to the state that was written.
C20_PersistRoundTrip ==
    (ld.fresh /\ ld.assigns >= 1) => SameDocument(ld.firstLoaded, ld.persisted)

-----------------------------------------------------------------------------
(* Baseline and diff *)

\* what analyzeChanges(getInitialState(), getState()) would return now
PendingChanges == analyzeChanges(structuredClone(EnsuredInitial), EnsuredState)

\* C21: right after reset() the diff of the baseline against the live state
\* has no change record, and it stays empty over every step that is neither a
\* registration nor a setter call; a diff taken then returns no record.
C21_RebaseConverges ==
    [][/\ StoreReset => PendingChanges' = <<>>
       /\ (PendingChanges = <<>> /\ ~Registration /\ ~Setter) => PendingChanges' = <<>>
       /\ (StoreAnalyze /\ PendingChanges = <<>>) => anaOut'.changes = <<>>]_vars

\* after registrations and a setter call, reset() was called and the diff
\* taken afterwards is empty
C21_Witness ==
    /\ anaOut.done
    /\ anaOut.changes = <<>>
    /\ anaNew = state
    /\ initialState = state
    /\ DOMAIN state.docker_build = {"app", "web"}
    /\ state.docker_build["app"].hot.kind = "undefined"
    /\ state.k8s.namespace # DefaultState.k8s.namespace

\* the image "web" is in no persisted state
WebNotPersisted == ~disk.exists \/ "web" \notin DOMAIN disk.content.docker_build

\* call c has taken its diff and has not come to persist yet
DiffTaken(c) ==
    call[c].pc \in {"docker", "docker_remove", "docker_wait", "k8s", "k8s_delete",
                    "k8s_apply", "live", "persist"}

\* C22: the Tiltfile evaluated for a pass registers the build "web", which the
\* persisted state does not hold; whichever loadTiltfile ran (the store
\* initialised before the evaluation or lazily after it), the diff of the pass
\* reports "web" as added.
C22_NewBuildIsAdded ==
    \A c \in Calls :
        (DiffTaken(c) /\ WebNotPersisted) =>
            \E i \in DOMAIN DockerChangesOf(c).added :
                DockerChangesOf(c).added[i].imageName = "web"

-----------------------------------------------------------------------------
(* The phases of one pass *)

\* a buildImage started by call c has not settled
BuildInFlight(c) == \E p \in inflight : p[2] = c

\* C26: while a pass is in applyK8sChanges, in setupLiveUpdates, about to
\* write the state file or about to reset the baseline, no buildImage the
\* pass started is still in flight.
C26_BuildsSettledBeforeK8s ==
    \A c \in Calls :
        call[c].pc \in {"k8s", "k8s_delete", "k8s_apply", "live", "persist", "rebase"}
            => ~BuildInFlight(c)

\* C28: a failed write of the state file is only a warning: the pass goes on
\* to its normal end, up() does not throw, and what the pass built and applied
\* stays recorded as done.
C28_WriteFailureIsAWarning ==
    \A c \in Calls :
        ops[c].wrote = "failed" =>
            /\ call[c].pc \in {"rebase", "done"}
            /\ call[c].cause = "none"

-----------------------------------------------------------------------------
(* buildImage: validation of the build context *)

\* buildImage found the context directory or the Dockerfile missing
ValidationFailed ==
    /\ bld.entry = "buildImage"
    /\ ~bld.error.isNull
    /\ bld.error.message \in {<<"Build context path does not exist">>,
                              <<"Dockerfile not found">>}

\* C30: when the context directory or the Dockerfile does not exist,
\* buildImage issues no docker build, no docker tag and no docker push, and it
\* ends by rejecting with that error.
C30_ValidationFailsBeforeBuild ==
    ValidationFailed =>
        /\ Count(bld.log, "build") = 0
        /\ Count(bld.log, "tag") = 0
        /\ Count(bld.log, "push") = 0
        /\ bld.pc \in {"cleanup_image", "cleanup_tag", "threw"}
        /\ bld.pc = "threw" => bld.result = "rejected"

\* buildImage has rejected because the Dockerfile was not found, after the
\* cleanup of the catch block
C30_Witness ==
    /\ bld.entry = "buildImage"
    /\ bld.pc = "threw"
    /\ bld.result = "rejected"
    /\ bld.error = Error(<<"Dockerfile not found">>)
    /\ bld.log = <<"rmi image", "rmi tag">>

-----------------------------------------------------------------------------
(* LiveUpdateManager *)

\* every call made on the LiveUpdateManager has completed
LiveQuiescent ==
    \A k \in LiveCalls :
        lv.calls[k].pc \in {"idle", "done", "threw"} /\ lv.calls[k].closing = {}

\* C23: once every startLiveUpdate and stopLiveUpdate call has completed,
\* every open watcher is the watcher of the session stored for its image, so
\* no image has two open watchers.
C23_OneWatcherPerImage ==
    LiveQuiescent =>
        \A w \in lv.open : lv.sessions[lv.calls[w].imageName] = w

\* C24: a stopAllLiveUpdates in which a watcher.close() failed does not
\* reject, and once all its stops have settled every other session it found
\* has its watcher closed.
C24_StopAllToleratesFailures ==
    \A k \in LiveCalls :
        (lv.calls[k].op = "stopAll" /\ lv.calls[k].failed # {}) =>
            /\ lv.calls[k].pc # "threw"
            /\ lv.calls[k].closing = {} =>
                  \A p \in lv.calls[k].closed : p[2] \notin lv.open

-----------------------------------------------------------------------------
(* matchesPattern against the stated glob semantics *)

HasWildcard(pattern) == Includes(pattern, "*") \/ Includes(pattern, "?")

\* the anchored glob match: "**" matches any characters, "*" any characters
\* of one segment, "?" one character of a segment, every other character
\* itself
RECURSIVE GlobMatch(_, _)
GlobMatch(glob, str) ==
    IF glob = <<>> THEN str = <<>>
    ELSE IF Len(glob) >= 2 /\ glob[1] = "*" /\ glob[2] = "*"
         THEN \E n \in 0..Len(str) : GlobMatch(Drop(glob, 2), Drop(str, n))
    ELSE IF glob[1] = "*"
         THEN \E n \in 0..Len(str) :
                 /\ ~Includes(SubSeq(str, 1, n), "/")
                 /\ GlobMatch(Tail(glob), Drop(str, n))
    ELSE IF glob[1] = "?"
         THEN str # <<>> /\ str[1] # "/" /\ GlobMatch(Tail(glob), Tail(str))
    ELSE str # <<>> /\ str[1] = glob[1] /\ GlobMatch(Tail(glob), Tail(str))

StatedMatch(filePath, pattern) ==
    IF HasWildcard(pattern)
    THEN GlobMatch(pattern, filePath)
    ELSE filePath = pattern \/ StartsWith(filePath, pattern \o <<"/">>)

\* C25: matchesPattern returns the anchored glob match for a pattern that
\* holds a wildcard ("**" across separators, "*" and "?" within one segment),
\* and equality or directory prefix for a pattern that holds none.
C25_MatchesStatedGlob ==
    pat.pc = "done" => pat.result = StatedMatch(pat.filePath, pat.pattern)

-----------------------------------------------------------------------------
(* applyYaml *)

\* C27: kubectl apply of a file is issued only right after the successful
\* dry-run validation of that file; and when applyYaml has ended after the
\* validation of one file failed, every other resolved file has been
\* validated and, where valid, applied.
C27_ValidationFailureSparesSiblings ==
    /\ \A j \in DOMAIN ay.log :
          ay.log[j][1] = "apply" =>
              /\ j > 1
              /\ ay.log[j - 1] = <<"validate", ay.log[j][2]>>
              /\ ay.log[j][2] \in ay.valid
    /\ (ay.pc \in {"done", "threw"} /\ ay.invalid # {}) =>
          /\ ay.valid \cup ay.invalid = 1..ay.files
          /\ ay.valid \subseteq ay.applied

-----------------------------------------------------------------------------
(* pushImageWithRetry: the end of the retry loop *)

\* a push attempt has succeeded
PushSucceeded == bld.pushing = 0 /\ Count(bld.log, "push") > Len(bld.failures)

\* C31: once a push attempt has succeeded the call has returned successfully,
\* with no attempt and no backoff after it (one backoff per earlier failure);
\* a backoff is only waited for while attempts are left, so none follows the
\* final failed attempt.
C31_PushStopsAtFirstSuccess ==
    /\ Len(bld.delays) <= Len(bld.failures)
    /\ PushSucceeded =>
          /\ bld.pc = "done" /\ bld.result = "resolved"
          /\ Len(bld.delays) = Len(bld.failures)
    /\ bld.pc = "backoff" => bld.attempt < bld.maxRetries
    /\ (PushExhausted /\ bld.maxRetries >= 1) => Len(bld.delays) = bld.maxRetries - 1

\* pushImageWithRetry returned after its second attempt, with one backoff and
\* an attempt left unused
C31_Witness ==
    /\ bld.entry = "pushImageWithRetry"
    /\ bld.pc = "done"
    /\ bld.maxRetries = 3
    /\ Count(bld.log, "push") = 2
    /\ Len(bld.failures) = 1
    /\ bld.delays = <<2000>>

-----------------------------------------------------------------------------
(* KubernetesManager: cached checks *)

\* C32: a call that enters verifyContext after it has succeeded issues none
\* of the context and connectivity commands, and a call that enters
\* ensureNamespace after it has succeeded issues no namespace command; each
\* flag is set only when a call's own check has succeeded, and a flag that is
\* set stays set.
C32_ChecksAreCached ==
    /\ [](/\ \A k \in ManagerCalls :
               /\ km.calls[k].contextWasCached => km.calls[k].issued \cap ContextProbes = {}
               /\ km.calls[k].namespaceWasCached => km.calls[k].issued \cap NamespaceProbes = {}
          /\ km.contextAvailable <=> \E k \in ManagerCalls : km.calls[k].connected
          /\ km.namespaceReady <=> \E k \in ManagerCalls : km.calls[k].ensured)
    /\ [][/\ km.contextAvailable => km'.contextAvailable
          /\ km.namespaceReady => km'.namespaceReady]_vars

\* a second call found both flags set by the first one and issued no command
C32_Witness ==
    /\ km.calls[1].connected /\ km.calls[1].ensured
    /\ km.calls[1].issued = ContextProbes \cup NamespaceProbes
    /\ km.calls[2].result = "ready"
    /\ km.calls[2].contextWasCached /\ km.calls[2].namespaceWasCached
    /\ km.calls[2].issued = {}

-----------------------------------------------------------------------------
(* Live-update sessions and file-change events *)

\* the positions of the log at which a command of event e was issued
Issued(e) == {i \in DOMAIN fe.log : fe.log[i][1] = e /\ fe.log[i][3] \in {"cp", "exec"}}

\* C33: an event delivered while the session's isActive is false causes no
\* kubectl cp and no kubectl exec.
C33_InactiveSessionDropsEvents ==
    \A e \in Events :
        (fe.events[e].pc # "idle" /\ ~fe.events[e].activeAtDelivery) => Issued(e) = {}

\* an event was delivered after the session had been stopped, and dropped
C33_Witness ==
    /\ fe.stop = "returned"
    /\ \E e \in Events :
          /\ fe.events[e].pc = "dropped"
          /\ ~fe.events[e].activeAtDelivery
          /\ Issued(e) = {}

\* C34: the commands of one event are issued in the declaration order of the
\* live_update steps, a command is issued only when the event has no command
\* pending, and an event whose handling has ended has gone through every
\* step, whether or not a step's command failed.
C34_StepsInDeclarationOrder ==
    /\ [](\A e \in Events :
             /\ \A i, j \in Issued(e) : i < j => fe.log[i][2] < fe.log[j][2]
             /\ fe.events[e].pc = "done" =>
                   fe.events[e].considered = DOMAIN SessionSteps)
    /\ [][\A e \in Events :
             Issued(e)' # Issued(e) => fe.events[e].pc # "running"]_vars

\* an event whose kubectl cp failed went on to its kubectl exec
C34_Witness ==
    \E e \in Events :
        /\ fe.events[e].pc = "running"
        /\ fe.events[e].step = 2
        /\ fe.events[e].failed
        /\ \E i, j \in Issued(e) :
              i < j /\ fe.log[i][3] = "cp" /\ fe.log[j][3] = "exec"

\* stopLiveUpdate has returned at position i of the log
StoppedAt(i) == i \in DOMAIN fe.log /\ fe.log[i][3] = "stopped"

\* C38: no kubectl cp and no kubectl exec is issued after stopLiveUpdate has
\* returned, the remaining steps of an event in progress included.
C38_NoCommandAfterStop ==
    \A i, j \in DOMAIN fe.log :
        (StoppedAt(i) /\ i < j) => fe.log[j][3] \notin {"cp", "exec"}

\* C39: the commands of two events of one session never interleave: between
\* two commands of one event no command of another event is issued.
C39_EventsOneAtATime ==
    \A e \in Events :
        \A i, k \in Issued(e) :
            \A j \in DOMAIN fe.log :
                (i < j /\ j < k) => fe.log[j][1] \in {0, e}

\* C40: buildImage issues its cleanup removals, docker rmi of the image and
\* of the registry tag, only in a call in which docker build was invoked.
C40_CleanupOnlyAfterBuild ==
    (bld.entry = "buildImage" /\
     Count(bld.log, "rmi image") + Count(bld.log, "rmi tag") > 0)
        => Count(bld.log, "build") > 0

\* the latest up() invocation c has returned without a pass that stays live:
\* from a dry run, or by throwing
ReturnedWithoutLivePass(c) ==
    /\ c = passes
    /\ \/ call[c].pc = "threw"
       \/ call[c].pc = "done" /\ call[c].dryRun

\* C37: when up() has returned from a dry run or has thrown, the engine is
\* idle whatever devMode was, so the next up() is not turned away as already
\* running.
C37_IdleAfterDryRunOrThrow ==
    \A c \in Calls : ReturnedWithoutLivePass(c) => ~isRunning

\* pass c has started a build, or has gone through an applyYaml
BuildStarted(c) == ops[c].started # {}
ApplyStarted(c) == ops[c].applied \cup ops[c].applyFailed # {}

\* C35: within one pass no image is both removed and built and no manifest
\* both deleted and applied, every removeImage of the pass is over before its
\* first buildImage starts, and every deleteYaml before its first applyYaml.
C35_RemovalBeforeRebuild ==
    \A c \in Calls :
        /\ Range(DockerChangesOf(c).removed) \cap Range(ImagesToBuild(c)) = {}
        /\ Range(K8sChangesOf(c).removed) \cap Range(YamlToApply(c)) = {}
        /\ ops[c].removed \cap ops[c].started = {}
        /\ ops[c].deleted \cap (ops[c].applied \cup ops[c].applyFailed) = {}
        /\ BuildStarted(c) => ops[c].removed = Range(DockerChangesOf(c).removed)
        /\ ApplyStarted(c) => ops[c].deleted = Range(K8sChangesOf(c).removed)

\* one pass removed an image and built another, deleted a manifest and
\* applied another
C35_Witness ==
    \E c \in Calls :
        /\ ops[c].removed # {} /\ BuildStarted(c)
        /\ ops[c].deleted # {} /\ ops[c].applied # {}

\* C36: the registrations of the Tiltfile, made through addDockerBuild and
\* addK8sYaml before or after the store's initialisation, are in the state
\* the store holds once init() has completed, with or without a state file.
C36_RegistrationSurvivesInit ==
    initialized =>
        /\ "web" \in DOMAIN state.docker_build
        /\ "k8s/b.yaml" \in DOMAIN state.k8s_yaml
====
